---- MODULE Spec2Model ----
(***************************************************************************)
(* The spawn / claim core of shivu/__main__.py: the per-chat message       *)
(* counter (message_counter), the spawn pipeline (send_image), the expiry  *)
(* timer (despawn_character) and the claim handler (guess); and the daily  *)
(* claim of shivu/modules/hclaim.py (daily_claim).                         *)
(*                                                                         *)
(* The handlers are asyncio coroutines registered with block=False, so     *)
(* they interleave at their await points and nowhere else.  Every action   *)
(* below is the code that runs between two consecutive awaits of one task. *)
(* The module-level dictionaries are functions whose DOMAIN is the set of  *)
(* keys present.                                                           *)
(***************************************************************************)
EXTENDS Integers, Sequences, FiniteSets, TLC

\* ------------------------------------------------------------------ bounds
MaxSpawns == 2
MaxClaimSpawns == 1
MaxCount == 41
MaxArgs == 2
MaxDaily == 2
MaxClock == 2

\* ------------------------------------------------------- program constants
MESSAGE_FREQUENCY == 40

\* the group / supergroup chats; "M" is the group AMV_ALLOWED_GROUP_ID names
Chats == {"A", "M"}
PrivateChats == {"P"}
Users == {"u1", "u2"}
AMV_ALLOWED_GROUP_ID == "M"

\* timedelta(hours=24), in ticks of the clock (one tick is twelve hours)
Day == 2

\* ------------------------------------------------------------ dictionaries
Has(d, k) == k \in DOMAIN d

Put(d, k, v) == [x \in (DOMAIN d) \cup {k} |-> IF x = k THEN v ELSE d[x]]

\* a mutant of Pop: the dictionary is cleared
PopAll(d, k) == [x \in {} |-> 0]

Pop(d, k) == [x \in (DOMAIN d) \ {k} |-> d[x]]

EmptyDict == [x \in {} |-> 0]

\* ----------------------------------------------------------------- strings
\* A string is a sequence of one-character strings.
Lower(ch) == IF ch = "A" THEN "a" ELSE IF ch = "B" THEN "b" ELSE ch

StrLower(s) == [i \in 1..Len(s) |-> Lower(s[i])]

RECURSIVE SplitFrom(_, _, _)
\* str.split(): the maximal runs of non-blank characters, scanning from i
\* with cur the token being collected.
SplitFrom(s, i, cur) ==
  IF i > Len(s) THEN (IF cur = <<>> THEN <<>> ELSE <<cur>>)
  ELSE IF s[i] = " "
       THEN (IF cur = <<>> THEN <<>> ELSE <<cur>>) \o SplitFrom(s, i + 1, <<>>)
       ELSE SplitFrom(s, i + 1, Append(cur, s[i]))

Split(s) == SplitFrom(s, 1, <<>>)

RECURSIVE Join(_)
\* ' '.join(parts)
Join(parts) ==
  IF parts = <<>> THEN <<>>
  ELSE IF Len(parts) = 1 THEN parts[1]
  ELSE parts[1] \o <<" ">> \o Join(Tail(parts))

\* needle in s, for a needle of one or two characters
Contains(s, needle) ==
  \E i \in 1..Len(s) :
    /\ i + Len(needle) - 1 <= Len(s)
    /\ \A j \in 1..Len(needle) : s[i + j - 1] = needle[j]

\* sorted(a) == sorted(b): the two lists hold the same items the same number
\* of times.
Occurrences(seq, x) == Cardinality({i \in 1..Len(seq) : seq[i] = x})

SortedEqual(a, b) ==
  /\ Len(a) = Len(b)
  /\ \A i \in 1..Len(a) : Occurrences(a, a[i]) = Occurrences(b, a[i])

\* ----------------------------------------------------------------- catalog
\* rarity.split(' ')[0] if ' ' in rarity else rarity
RarityEmoji(rarity) ==
  IF \E i \in 1..Len(rarity) : rarity[i] = " "
  THEN LET first == CHOOSE i \in 1..Len(rarity) :
                      /\ rarity[i] = " "
                      /\ \A j \in 1..(i - 1) : rarity[j] # " "
       IN SubSeq(rarity, 1, first - 1)
  ELSE rarity

Char1 == [id |-> 1, name |-> <<"A", "b", " ", "B", "&">>,
          rarity |-> <<"c", " ", "C">>, removed |-> FALSE, is_video |-> FALSE]

Char2 == [id |-> 2, name |-> <<"a", "B">>,
          rarity |-> <<"r", " ", "R">>, removed |-> FALSE, is_video |-> FALSE]

Char3 == [id |-> 3, name |-> <<"a", "a">>,
          rarity |-> <<"c", " ", "C">>, removed |-> TRUE, is_video |-> FALSE]

FullCatalog == <<Char1, Char2, Char3>>

\* What collection.find({}) can return during a run of Spec: the catalog, or
\* nothing at all.
Catalogs == {FullCatalog, <<>>}

\* The rarity policy documents of Spec: get_spawn_settings()['rarities'] in
\* dict order, and the rows of group_rarity_collection.
GlobalRarities == << [emoji |-> <<"c">>, enabled |-> TRUE, chance |-> 5],
                     [emoji |-> <<"r">>, enabled |-> TRUE, chance |-> 5] >>

GroupRarity == {}

\* ------------------------------------------------------------------- state
VARIABLES
  locks,                 \* locks: chat -> its asyncio.Lock (never contended)
  message_counts,        \* message_counts: chat -> int
  currently_spawning,    \* currently_spawning: chat -> bool
  sent_characters,       \* sent_characters: chat -> list of character ids
  last_characters,       \* last_characters: chat -> character dict
  first_correct_guesses, \* first_correct_guesses: chat -> user id
  spawn_messages,        \* spawn_messages: chat -> message id
  spawn_message_links,   \* spawn_message_links: chat -> permalink
  send_image_tasks,      \* the send_image tasks, by dispatch number
  despawn_tasks,         \* the despawn_character tasks, by spawn
  guess_tasks,           \* the guess handler of each user
  chat_messages,         \* the bot's messages standing in the chats
  user_collection,       \* users: user id -> the 'characters' list
  group_user_totals,     \* group_user_totals documents, in insertion order
  top_global_groups,     \* top_global_groups documents, in insertion order
  reply,                 \* the last update answered or ignored, and how
  winners,               \* history: spawn -> users whose guess was accepted
  collection,            \* the lists collection.find({}) may return
  group_rarity_collection, \* the exclusive grants: rows (chat_id, rarity_emoji, chance)
  spawn_settings,        \* get_spawn_settings()['rarities'], in dict order
  active_claims,         \* hclaim.active_claims: set of user ids
  daily_claim_tasks,     \* the daily_claim invocations, by arrival
  last_daily_claim,      \* users: user id -> the 'last_daily_claim' field
  clock                  \* datetime.now(UTC_TZ), in ticks

vars == << locks, message_counts, currently_spawning, sent_characters,
           last_characters, first_correct_guesses, spawn_messages,
           spawn_message_links, send_image_tasks, despawn_tasks, guess_tasks,
           chat_messages, user_collection, group_user_totals,
           top_global_groups, reply, winners, collection,
           group_rarity_collection, spawn_settings, active_claims,
           daily_claim_tasks, last_daily_claim, clock >>

\* what the handlers of __main__ leave as it is: the stores they only read
\* and the state of hclaim
stores == << collection, group_rarity_collection, spawn_settings,
            active_claims, daily_claim_tasks, last_daily_claim, clock >>

\* what daily_claim leaves as it is: all but the users collection
main_state == << locks, message_counts, currently_spawning, sent_characters,
                 last_characters, first_correct_guesses, spawn_messages,
                 spawn_message_links, send_image_tasks, despawn_tasks,
                 guess_tasks, chat_messages, group_user_totals,
                 top_global_groups, reply, winners, collection,
                 group_rarity_collection, spawn_settings >>

\* ------------------------------------------------------------ rarity policy
\* a mutant of is_character_allowed: the removed flag is not looked at
is_character_allowedKeepsRemoved(character, chat_id) ==
  LET rarity_emoji == RarityEmoji(character.rarity) IN
    IF character.is_video /\ rarity_emoji = <<"v">>
    THEN chat_id = AMV_ALLOWED_GROUP_ID
    ELSE IF \E g \in group_rarity_collection :
              g.chat_id = chat_id /\ g.rarity_emoji = rarity_emoji
         THEN TRUE
    ELSE IF \E g \in group_rarity_collection :
              g.chat_id # chat_id /\ g.rarity_emoji = rarity_emoji
         THEN FALSE
    ELSE IF \E i \in 1..Len(spawn_settings) :
              spawn_settings[i].emoji = rarity_emoji /\ ~spawn_settings[i].enabled
         THEN FALSE
    ELSE TRUE

\* a mutant of is_character_allowed: a video is treated as any character
is_character_allowedAnyChat(character, chat_id) ==
  IF character.removed THEN FALSE
  ELSE LET rarity_emoji == RarityEmoji(character.rarity) IN
    IF \E g \in group_rarity_collection :
         g.chat_id = chat_id /\ g.rarity_emoji = rarity_emoji
    THEN TRUE
    ELSE IF \E g \in group_rarity_collection :
              g.chat_id # chat_id /\ g.rarity_emoji = rarity_emoji
         THEN FALSE
    ELSE IF \E i \in 1..Len(spawn_settings) :
              spawn_settings[i].emoji = rarity_emoji /\ ~spawn_settings[i].enabled
         THEN FALSE
    ELSE TRUE

\* lines 329-386
is_character_allowed(character, chat_id) ==
  IF character.removed THEN FALSE
  ELSE LET rarity_emoji == RarityEmoji(character.rarity) IN
    IF character.is_video /\ rarity_emoji = <<"v">>
    THEN chat_id = AMV_ALLOWED_GROUP_ID
    ELSE IF \E g \in group_rarity_collection :
              g.chat_id = chat_id /\ g.rarity_emoji = rarity_emoji
         THEN TRUE
    ELSE IF \E g \in group_rarity_collection :
              g.chat_id # chat_id /\ g.rarity_emoji = rarity_emoji
         THEN FALSE
    ELSE IF \E i \in 1..Len(spawn_settings) :
              spawn_settings[i].emoji = rarity_emoji /\ ~spawn_settings[i].enabled
         THEN FALSE
    ELSE TRUE

\* get_group_exclusive(chat_id): the chat's exclusive row, if any
GroupSetting(chat_id) == {g \in group_rarity_collection : g.chat_id = chat_id}

\* rarity_pools[emoji]
Pool(allowed, emoji) ==
  SelectSeq(allowed, LAMBDA ch : RarityEmoji(ch.rarity) = emoji)

\* lines 615 and 636: the chance of a bucket when the document has none
ExclusiveChance == 10

GlobalChance == 5

\* row.get('chance', default)
Chance(row, default) == IF "chance" \in DOMAIN row THEN row.chance ELSE default

\* a mutant of WeightedChoices: the exclusive tag is not skipped among the
\* global ones
WeightedChoicesNoSkip(allowed, chat_id) ==
  LET gs == GroupSetting(chat_id)
      excl == IF gs = {} THEN <<>>
              ELSE LET g == CHOOSE x \in gs : TRUE IN
                   IF Pool(allowed, g.rarity_emoji) # <<>>
                   THEN << [emoji |-> g.rarity_emoji,
                            chars |-> Pool(allowed, g.rarity_emoji),
                            chance |-> Chance(g, ExclusiveChance)] >>
                   ELSE <<>>
      keep(rd) == rd.enabled /\ Pool(allowed, rd.emoji) # <<>>
      glob == SelectSeq(spawn_settings, keep)
  IN excl \o [i \in 1..Len(glob) |->
                [emoji |-> glob[i].emoji,
                 chars |-> Pool(allowed, glob[i].emoji),
                 chance |-> Chance(glob[i], GlobalChance)]]

\* weighted_choices: the exclusive bucket first, then the enabled global ones
WeightedChoices(allowed, chat_id) ==
  LET gs == GroupSetting(chat_id)
      excl == IF gs = {} THEN <<>>
              ELSE LET g == CHOOSE x \in gs : TRUE IN
                   IF Pool(allowed, g.rarity_emoji) # <<>>
                   THEN << [emoji |-> g.rarity_emoji,
                            chars |-> Pool(allowed, g.rarity_emoji),
                            chance |-> Chance(g, ExclusiveChance)] >>
                   ELSE <<>>
      keep(rd) == /\ rd.enabled
                  /\ \A g \in gs : rd.emoji # g.rarity_emoji
                  /\ Pool(allowed, rd.emoji) # <<>>
      glob == SelectSeq(spawn_settings, keep)
  IN excl \o [i \in 1..Len(glob) |->
                [emoji |-> glob[i].emoji,
                 chars |-> Pool(allowed, glob[i].emoji),
                 chance |-> Chance(glob[i], GlobalChance)]]

RECURSIVE SumChance(_)
SumChance(choices) ==
  IF choices = <<>> THEN 0 ELSE choices[1].chance + SumChance(Tail(choices))

\* a mutant of Roulette: the bucket is taken when rand < cumulative
RouletteStrict(choices, rand) ==
  LET hit == {i \in 1..Len(choices) : rand < SumChance(SubSeq(choices, 1, i))}
  IN IF hit = {} THEN 0 ELSE CHOOSE i \in hit : \A j \in hit : i <= j

\* the roulette walk: the first bucket whose cumulative chance reaches rand
Roulette(choices, rand) ==
  LET hit == {i \in 1..Len(choices) : rand <= SumChance(SubSeq(choices, 1, i))}
  IN IF hit = {} THEN 0 ELSE CHOOSE i \in hit : \A j \in hit : i <= j

\* a mutant of FallbackPool: no character is chosen
FallbackNone(allowed) == {}

\* line 656: random.choice(allowed_characters)
FallbackPool(allowed) == {allowed[i] : i \in 1..Len(allowed)}

\* Every character the selection of send_image can return for this list
\* when the policy lookups of lines 593-600 return.
SelectPool(allowed, chat_id) ==
  LET wc == WeightedChoices(allowed, chat_id)
      picked == {Roulette(wc, rand) : rand \in 0..SumChance(wc)} \ {0}
  IN IF wc = <<>> \/ picked = {}
     THEN FallbackPool(allowed)
     ELSE UNION {{wc[b].chars[i] : i \in 1..Len(wc[b].chars)} : b \in picked}

\* ------------------------------------------------------------------- tasks
SpawnIds == 1..MaxSpawns

IdleSend == [pc |-> "idle", chat |-> "-", available |-> <<>>, character |-> 0]

IdleDespawn == [pc |-> "idle", chat |-> "-", character |-> 0, claimedAtFire |-> FALSE]

IdleGuess == [pc |-> "idle", chat |-> "-", spawn |-> 0, message_id |-> 0,
              found |-> FALSE, arg |-> 0]

DailyIds == 1..MaxDaily

IdleDaily == [pc |-> "idle", user |-> "-", now |-> 0, char |-> 0,
              appended |-> FALSE, exit |-> "-"]

\* hclaim as imported: active_claims = set() (line 12), no invocation yet,
\* no user has a last_daily_claim
NoDailyClaim ==
  /\ active_claims = {}
  /\ daily_claim_tasks = [i \in DailyIds |-> IdleDaily]
  /\ last_daily_claim = EmptyDict
  /\ clock = 0

\* the module-level dictionaries as lines 304-311 create them, no task
\* started and the collections of the database empty
Constructed ==
  /\ locks = EmptyDict
  /\ message_counts = EmptyDict
  /\ currently_spawning = EmptyDict
  /\ sent_characters = EmptyDict
  /\ last_characters = EmptyDict
  /\ first_correct_guesses = EmptyDict
  /\ spawn_messages = EmptyDict
  /\ spawn_message_links = EmptyDict
  /\ send_image_tasks = [p \in SpawnIds |-> IdleSend]
  /\ despawn_tasks = [p \in SpawnIds |-> IdleDespawn]
  /\ guess_tasks = [u \in Users |-> IdleGuess]
  /\ chat_messages = {}
  /\ user_collection = EmptyDict
  /\ group_user_totals = <<>>
  /\ top_global_groups = <<>>
  /\ reply = [chat |-> "-", args |-> <<>>, res |-> "none"]
  /\ winners = [p \in SpawnIds |-> {}]
  /\ NoDailyClaim

Init ==
  /\ Constructed
  /\ collection = Catalogs
  /\ group_rarity_collection = GroupRarity
  /\ spawn_settings = GlobalRarities

\* ------------------------------------------------------- message_counter
IdleSends == {p \in SpawnIds : send_image_tasks[p].pc = "idle"}

\* asyncio.create_task(send_image(update, context)): the next dispatch number
NextSend == CHOOSE p \in IdleSends : \A q \in IdleSends : p <= q

Spawning(chat) == Has(currently_spawning, chat) /\ currently_spawning[chat]

\* a mutant of ShouldDispatch: the spawn-in-progress flag is not consulted
ShouldDispatchUnguarded(count, chat) == count >= MESSAGE_FREQUENCY

\* a mutant of ShouldDispatch: the threshold is not consulted
ShouldDispatchAlways(count, chat) == ~Spawning(chat)

\* lines 538-539
ShouldDispatch(count, chat) == count >= MESSAGE_FREQUENCY /\ ~Spawning(chat)

\* the pipelines dispatched for the chat so far
DispatchedIn(chat) ==
  {p \in SpawnIds \ IdleSends : send_image_tasks[p].chat = chat}

\* a mutant of IsGroup: the type of the chat is not looked at
IsGroupAny(chat) == TRUE

\* line 488: update.effective_chat.type in ['group', 'supergroup']
IsGroup(chat) == chat \in Chats

\* lines 485-545; the model stops sending messages to a chat once cap
\* pipelines have been dispatched for it; an ignored update is recorded in
\* reply when logged
message_counter(chat, cap, logged) ==
  /\ Cardinality(DispatchedIn(chat)) < cap
  /\ IdleSends # {}
  /\ IF ~IsGroup(chat)
     THEN /\ reply' = IF logged
                      THEN [chat |-> chat, args |-> <<>>, res |-> "ignored"]
                      ELSE reply
          /\ UNCHANGED stores
          /\ UNCHANGED << locks, message_counts, currently_spawning,
                          sent_characters, last_characters,
                          first_correct_guesses, spawn_messages,
                          spawn_message_links, send_image_tasks, despawn_tasks,
                          guess_tasks, chat_messages, user_collection,
                          group_user_totals, top_global_groups, winners >>
     ELSE LET count == (IF Has(message_counts, chat) THEN message_counts[chat] ELSE 0) + 1
          IN /\ count <= MaxCount
             /\ locks' = Put(locks, chat, "lock")
             /\ IF ShouldDispatch(count, chat)
                THEN /\ currently_spawning' = Put(currently_spawning, chat, TRUE)
                     /\ message_counts' = Put(message_counts, chat, 0)
                     /\ send_image_tasks' =
                          [send_image_tasks EXCEPT ![NextSend] =
                             [IdleSend EXCEPT !.pc = "fetch", !.chat = chat]]
                ELSE /\ message_counts' = Put(message_counts, chat, count)
                     /\ UNCHANGED << currently_spawning, send_image_tasks >>
             /\ UNCHANGED stores
             /\ UNCHANGED << sent_characters, last_characters,
                             first_correct_guesses, spawn_messages,
                             spawn_message_links, despawn_tasks, guess_tasks,
                             chat_messages, user_collection, group_user_totals,
                             top_global_groups, reply, winners >>

\* ------------------------------------------------------------- send_image
SpawnMsg(p) == [kind |-> "spawn", spawn |-> p]

MissedMsg(p) == [kind |-> "missed", spawn |-> p]

Ids(seq) == {seq[i] : i \in 1..Len(seq)}

\* a mutant of Rotate: the shown list is never cleared
RotateNoReset(all_characters, sent0) ==
  [sent |-> sent0,
   available |-> SelectSeq(all_characters, LAMBDA c : c.id \notin Ids(sent0))]

\* lines 564-577: the shown list is cleared when it is as long as the
\* catalog, and again when no character is left; sent is the list kept and
\* available the characters to choose from
Rotate(all_characters, sent0) ==
  LET sent1 == IF Len(sent0) >= Len(all_characters) THEN <<>> ELSE sent0
      avail == SelectSeq(all_characters, LAMBDA c : c.id \notin Ids(sent1))
  IN [sent |-> IF avail = <<>> THEN <<>> ELSE sent1,
      available |-> IF avail = <<>> THEN all_characters ELSE avail]

\* a mutant of SpawningAfterAbort: the flag is left as it is
SpawningAfterAbortStuck(chat) == currently_spawning

\* lines 561 and 586: the flag when the pipeline ends without a candidate
SpawningAfterAbort(chat) == Put(currently_spawning, chat, FALSE)

\* lines 557-577: the catalog arrives; rotation check; available_characters
SendFetch(p) ==
  LET t == send_image_tasks[p]
      chat == t.chat
  IN
  /\ t.pc = "fetch"
  /\ \E raised \in BOOLEAN, all_characters \in collection :
       IF raised
       THEN /\ all_characters = <<>>
            /\ currently_spawning' = Put(currently_spawning, chat, FALSE)
            /\ send_image_tasks' = [send_image_tasks EXCEPT ![p].pc = "failed"]
            /\ UNCHANGED sent_characters
       ELSE IF all_characters = <<>>
       THEN /\ currently_spawning' = SpawningAfterAbort(chat)
            /\ send_image_tasks' = [send_image_tasks EXCEPT ![p].pc = "empty"]
            /\ UNCHANGED sent_characters
       ELSE LET sent0 == IF Has(sent_characters, chat) THEN sent_characters[chat] ELSE <<>>
                rotation == Rotate(all_characters, sent0)
            IN /\ sent_characters' = Put(sent_characters, chat, rotation.sent)
               /\ send_image_tasks' =
                    [send_image_tasks EXCEPT ![p].pc = "filter",
                                             ![p].available = rotation.available]
               /\ UNCHANGED currently_spawning
  /\ UNCHANGED stores
  /\ UNCHANGED << locks, message_counts, last_characters, first_correct_guesses,
                  spawn_messages, spawn_message_links, despawn_tasks, guess_tasks,
                  chat_messages, user_collection, group_user_totals,
                  top_global_groups, reply, winners >>

\* lines 579-662: allow-filter and policy lookups done (a lookup of lines
\* 593-600 that raises leaves the choice to line 656); the character is
\* chosen and made the chat's last character before the post is awaited
SendSelect(p) ==
  LET t == send_image_tasks[p]
      chat == t.chat
      allowed_characters ==
        SelectSeq(t.available, LAMBDA c : is_character_allowed(c, chat))
  IN
  /\ t.pc = "filter"
  /\ IF allowed_characters = <<>>
     THEN /\ currently_spawning' = SpawningAfterAbort(chat)
          /\ send_image_tasks' = [send_image_tasks EXCEPT ![p].pc = "noallowed",
                                                          ![p].available = <<>>]
          /\ UNCHANGED << sent_characters, last_characters, first_correct_guesses >>
     ELSE \E raised \in BOOLEAN :
          \E character \in IF raised THEN FallbackPool(allowed_characters)
                                     ELSE SelectPool(allowed_characters, chat) :
          /\ sent_characters' =
               Put(sent_characters, chat, Append(sent_characters[chat], character.id))
          /\ last_characters' =
               Put(last_characters, chat, [char |-> character, spawn |-> p])
          /\ first_correct_guesses' = Pop(first_correct_guesses, chat)
          /\ send_image_tasks' =
               [send_image_tasks EXCEPT ![p].pc = "post", ![p].available = <<>>,
                                        ![p].character = character]
          /\ UNCHANGED currently_spawning
  /\ UNCHANGED stores
  /\ UNCHANGED << locks, message_counts, spawn_messages, spawn_message_links,
                  despawn_tasks, guess_tasks, chat_messages, user_collection,
                  group_user_totals, top_global_groups, reply, winners >>

\* a mutant of SpawningAfterPost: the handler at line 708 leaves the flag
SpawningAfterPostStuck(chat, raised) ==
  IF raised THEN currently_spawning ELSE Put(currently_spawning, chat, FALSE)

\* lines 704 and 711: the flag once the post has returned or raised
SpawningAfterPost(chat, raised) == Put(currently_spawning, chat, FALSE)

\* lines 673-711: send_photo / send_video returns or raises
SendPost(p) ==
  LET t == send_image_tasks[p]
      chat == t.chat
  IN
  /\ t.pc = "post"
  /\ \E raised \in BOOLEAN :
       /\ currently_spawning' = SpawningAfterPost(chat, raised)
       /\ IF raised
          THEN /\ send_image_tasks' = [send_image_tasks EXCEPT ![p].pc = "failed"]
               /\ UNCHANGED << spawn_messages, spawn_message_links,
                               despawn_tasks, chat_messages >>
          ELSE /\ chat_messages' = chat_messages \cup {SpawnMsg(p)}
               /\ spawn_messages' = Put(spawn_messages, chat, p)
               /\ spawn_message_links' = Put(spawn_message_links, chat, <<chat, p>>)
               /\ despawn_tasks' =
                    [despawn_tasks EXCEPT ![p] =
                       [pc |-> "sleep", chat |-> chat, character |-> t.character,
                        claimedAtFire |-> FALSE]]
               /\ send_image_tasks' =
                    [send_image_tasks EXCEPT ![p].pc = "published",
                                             ![p].character = 0]
  /\ UNCHANGED stores
  /\ UNCHANGED << locks, message_counts, sent_characters, last_characters,
                  first_correct_guesses, guess_tasks, user_collection,
                  group_user_totals, top_global_groups, reply, winners >>

\* ------------------------------------------------------ despawn_character
\* lines 419-426: asyncio.sleep(DESPAWN_TIME) is over
DespawnFire(p) ==
  LET t == despawn_tasks[p]
      chat == t.chat
  IN
  /\ t.pc = "sleep"
  /\ IF Has(first_correct_guesses, chat)
     THEN /\ last_characters' = Pop(last_characters, chat)
          /\ spawn_messages' = Pop(spawn_messages, chat)
          /\ spawn_message_links' = Pop(spawn_message_links, chat)
          /\ currently_spawning' = Pop(currently_spawning, chat)
          /\ despawn_tasks' = [despawn_tasks EXCEPT
                                 ![p].pc = "done",
                                 ![p].claimedAtFire = (winners[p] # {})]
     ELSE /\ despawn_tasks' = [despawn_tasks EXCEPT
                                 ![p].pc = "delete",
                                 ![p].claimedAtFire = (winners[p] # {})]
          /\ UNCHANGED << last_characters, spawn_messages, spawn_message_links,
                          currently_spawning >>
  /\ UNCHANGED stores
  /\ UNCHANGED << locks, message_counts, sent_characters, first_correct_guesses,
                  send_image_tasks, guess_tasks, chat_messages, user_collection,
                  group_user_totals, top_global_groups, reply, winners >>

\* lines 428-432: delete_message(message_id) returns, raises BadRequest
\* (swallowed) or raises something else (caught at line 479)
DespawnDelete(p) ==
  LET t == despawn_tasks[p] IN
  /\ t.pc = "delete"
  /\ \E raised \in BOOLEAN :
       /\ despawn_tasks' =
            [despawn_tasks EXCEPT ![p].pc = IF raised THEN "error" ELSE "missed"]
       /\ chat_messages' =
            IF raised THEN chat_messages ELSE chat_messages \ {SpawnMsg(p)}
  /\ UNCHANGED stores
  /\ UNCHANGED << locks, message_counts, currently_spawning, sent_characters,
                  last_characters, first_correct_guesses, spawn_messages,
                  spawn_message_links, send_image_tasks, guess_tasks,
                  user_collection, group_user_totals, top_global_groups, reply,
                  winners >>

\* lines 452-466: the 'missed' notice is posted, or the post raises
DespawnMissed(p) ==
  LET t == despawn_tasks[p] IN
  /\ t.pc = "missed"
  /\ \E raised \in BOOLEAN :
       /\ despawn_tasks' =
            [despawn_tasks EXCEPT ![p].pc = IF raised THEN "error" ELSE "grace"]
       /\ chat_messages' =
            IF raised THEN chat_messages ELSE chat_messages \cup {MissedMsg(p)}
  /\ UNCHANGED stores
  /\ UNCHANGED << locks, message_counts, currently_spawning, sent_characters,
                  last_characters, first_correct_guesses, spawn_messages,
                  spawn_message_links, send_image_tasks, guess_tasks,
                  user_collection, group_user_totals, top_global_groups, reply,
                  winners >>

\* lines 468-477: the grace period is over, the notice is deleted and the
\* chat's entries are popped
DespawnClear(p) ==
  LET t == despawn_tasks[p]
      chat == t.chat
  IN
  /\ t.pc = "grace"
  /\ \E raised \in BOOLEAN :
       IF raised
       THEN /\ despawn_tasks' = [despawn_tasks EXCEPT ![p].pc = "error"]
            /\ UNCHANGED << chat_messages, last_characters, spawn_messages,
                            spawn_message_links, currently_spawning >>
       ELSE /\ chat_messages' = chat_messages \ {MissedMsg(p)}
            /\ last_characters' = Pop(last_characters, chat)
            /\ spawn_messages' = Pop(spawn_messages, chat)
            /\ spawn_message_links' = Pop(spawn_message_links, chat)
            /\ currently_spawning' = Pop(currently_spawning, chat)
            /\ despawn_tasks' = [despawn_tasks EXCEPT ![p].pc = "done"]
  /\ UNCHANGED stores
  /\ UNCHANGED << locks, message_counts, sent_characters, first_correct_guesses,
                  send_image_tasks, guess_tasks, user_collection,
                  group_user_totals, top_global_groups, reply, winners >>

\* ------------------------------------------------------------------ guess
tAb == <<"A", "b">>
tab == <<"a", "b">>
tbAmp == <<"b", "&">>
tb == <<"b">>
tba == <<"b", "a">>
tbPar == <<"b", "(", ")">>

\* context.args of the /grab commands the model sends: nothing, a name
\* token in capitals, the tokens of a name out of order with its '&', and a
\* prefix of a token
GuessArgs == { <<>>, <<tAb>>, <<tbAmp, tab>>, <<tb>> }

\* ' '.join(context.args).lower() if context.args else ''
GuessText(args) == StrLower(Join(args))

\* a mutant of IsCorrect: the words are compared in the order given
IsCorrectOrdered(character, guess_text) ==
  LET character_name == StrLower(character.name)
      name_parts == Split(character_name)
  IN \/ name_parts = Split(guess_text)
     \/ \E i \in 1..Len(name_parts) : name_parts[i] = guess_text
     \/ guess_text = character_name

\* lines 741-748
IsCorrect(character, guess_text) ==
  LET character_name == StrLower(character.name)
      name_parts == Split(character_name)
  IN \/ SortedEqual(name_parts, Split(guess_text))
     \/ \E i \in 1..Len(name_parts) : name_parts[i] = guess_text
     \/ guess_text = character_name

\* a mutant of GuessResult: the check of first_correct_guesses is missing
GuessResultNoClaimCheck(chat, args) ==
  LET guess_text == GuessText(args) IN
  IF ~Has(last_characters, chat) THEN "NoActiveSpawn"
  ELSE IF guess_text = <<>> THEN "Rejected"
  ELSE IF Contains(guess_text, <<"(", ")">>) \/ Contains(guess_text, <<"&">>)
       THEN "Rejected"
  ELSE IF IsCorrect(last_characters[chat].char, guess_text) THEN "Accepted"
  ELSE "Rejected"

\* a mutant of GuessResult: the guess text is screened before the chat's
\* spawn and winner are looked at
GuessResultTextFirst(chat, args) ==
  LET guess_text == GuessText(args) IN
  IF guess_text = <<>> THEN "Rejected"
  ELSE IF Contains(guess_text, <<"(", ")">>) \/ Contains(guess_text, <<"&">>)
       THEN "Rejected"
  ELSE IF ~Has(last_characters, chat) THEN "NoActiveSpawn"
  ELSE IF Has(first_correct_guesses, chat) THEN "AlreadyClaimed"
  ELSE IF IsCorrect(last_characters[chat].char, guess_text) THEN "Accepted"
  ELSE "Rejected"

\* a mutant of GuessResult: the screen of line 735 is missing
GuessResultNoScreen(chat, args) ==
  LET guess_text == GuessText(args) IN
  IF ~Has(last_characters, chat) THEN "NoActiveSpawn"
  ELSE IF Has(first_correct_guesses, chat) THEN "AlreadyClaimed"
  ELSE IF guess_text = <<>> THEN "Rejected"
  ELSE IF IsCorrect(last_characters[chat].char, guess_text) THEN "Accepted"
  ELSE "Rejected"

\* lines 719-750: the answer of guess() in the current state
GuessResult(chat, args) ==
  LET guess_text == GuessText(args) IN
  IF ~Has(last_characters, chat) THEN "NoActiveSpawn"
  ELSE IF Has(first_correct_guesses, chat) THEN "AlreadyClaimed"
  ELSE IF guess_text = <<>> THEN "Rejected"
  ELSE IF Contains(guess_text, <<"(", ")">>) \/ Contains(guess_text, <<"&">>)
       THEN "Rejected"
  ELSE IF IsCorrect(last_characters[chat].char, guess_text) THEN "Accepted"
  ELSE "Rejected"

GuessFree(u) == guess_tasks[u].pc \in {"idle", "done", "failed", "delete_failed"}

\* a mutant of KeyboardLinks: the permalink is popped as at line 883
KeyboardLinksPopped(chat) == Pop(spawn_message_links, chat)

\* lines 886-893: the rejection's keyboard reads the permalink and leaves it
KeyboardLinks(chat) == spawn_message_links

\* lines 713-757 and 885-899: a /grab arrives and is answered; an accepted
\* one records the winner and goes on to its side effects
guess(u, chat, args, logged) ==
  LET res == GuessResult(chat, args) IN
  /\ GuessFree(u)
  /\ reply' = IF logged THEN [chat |-> chat, args |-> args, res |-> res] ELSE reply
  /\ IF res = "Accepted"
     THEN /\ first_correct_guesses' = Put(first_correct_guesses, chat, u)
          /\ winners' = [winners EXCEPT ![last_characters[chat].spawn] = @ \cup {u}]
          /\ guess_tasks' =
               [guess_tasks EXCEPT ![u] =
                  [pc |-> IF Has(spawn_messages, chat) THEN "delete" ELSE "find_user",
                   chat |-> chat,
                   spawn |-> last_characters[chat].spawn,
                   message_id |-> IF Has(spawn_messages, chat)
                                  THEN spawn_messages[chat] ELSE 0,
                   found |-> FALSE, arg |-> 0]]
     ELSE UNCHANGED << first_correct_guesses, winners, guess_tasks >>
  /\ spawn_message_links' =
       IF res = "Rejected" THEN KeyboardLinks(chat) ELSE spawn_message_links
  /\ UNCHANGED stores
  /\ UNCHANGED << locks, message_counts, currently_spawning, sent_characters,
                  last_characters, spawn_messages, send_image_tasks,
                  despawn_tasks, chat_messages, user_collection,
                  group_user_totals, top_global_groups >>

\* lines 755-760: delete_message(spawn_messages[chat_id]) returns or raises
\* BadRequest (swallowed), then the handle is popped; any other exception
\* ends the handler at line 901
GuessDelete(u) ==
  LET t == guess_tasks[u] IN
  /\ t.pc = "delete"
  /\ \E raised \in BOOLEAN :
       IF raised
       THEN /\ guess_tasks' = [guess_tasks EXCEPT ![u].pc = "delete_failed",
                                                  ![u].message_id = 0]
            /\ UNCHANGED << chat_messages, spawn_messages >>
       ELSE /\ chat_messages' = chat_messages \ {SpawnMsg(t.message_id)}
            /\ spawn_messages' = Pop(spawn_messages, t.chat)
            /\ guess_tasks' = [guess_tasks EXCEPT ![u].pc = "find_user",
                                                  ![u].message_id = 0]
  /\ UNCHANGED stores
  /\ UNCHANGED << locks, message_counts, currently_spawning, sent_characters,
                  last_characters, first_correct_guesses, spawn_message_links,
                  send_image_tasks, despawn_tasks, user_collection,
                  group_user_totals, top_global_groups, reply, winners >>

\* lines 762-784: find_one on the user returns; the $push / insert_one is
\* issued with last_characters[chat_id] as it is now (KeyError if popped)
GuessFindUser(u) ==
  LET t == guess_tasks[u] IN
  /\ t.pc = "find_user"
  /\ guess_tasks' =
       IF Has(last_characters, t.chat)
       THEN [guess_tasks EXCEPT ![u].pc = "push",
                                ![u].found = Has(user_collection, u),
                                ![u].arg = last_characters[t.chat]]
       ELSE [guess_tasks EXCEPT ![u].pc = "failed"]
  /\ UNCHANGED stores
  /\ UNCHANGED << locks, message_counts, currently_spawning, sent_characters,
                  last_characters, first_correct_guesses, spawn_messages,
                  spawn_message_links, send_image_tasks, despawn_tasks,
                  chat_messages, user_collection, group_user_totals,
                  top_global_groups, reply, winners >>

\* update_one({...}, {'$inc': {'count': 1}}) where hits are the positions of
\* the matching documents: the first of them is updated
IncFirst(docs, hits) ==
  IF hits = {} THEN docs
  ELSE LET k == CHOOSE i \in hits : \A j \in hits : i <= j
       IN [docs EXCEPT ![k].count = @ + 1]

\* lines 788-818 on the documents of one (user, chat): find_one, then $inc
\* or insert_one with count 1
BumpGroupUser(docs, u, chat) ==
  LET hits == {i \in 1..Len(docs) : docs[i].user_id = u /\ docs[i].group_id = chat}
  IN IF hits # {}
     THEN IncFirst(docs, hits)
     ELSE Append(docs, [user_id |-> u, group_id |-> chat, count |-> 1])

\* lines 774-820: the write reaches the users collection (unique index on
\* 'id', line 114: a second insert_one raises DuplicateKeyError), the grab
\* task and the (user, chat) counter are updated, and find_one on
\* top_global_groups returns.  The awaits in between touch only documents
\* of this user, which no other task in flight writes, so they are taken in
\* one step.
GuessPush(u) ==
  LET t == guess_tasks[u] IN
  /\ t.pc = "push"
  /\ IF ~t.found /\ Has(user_collection, u)
     THEN /\ guess_tasks' = [guess_tasks EXCEPT ![u].pc = "failed",
                                                ![u].found = FALSE, ![u].arg = 0]
          /\ UNCHANGED << user_collection, group_user_totals >>
     ELSE /\ user_collection' =
               Put(user_collection, u,
                   IF t.found THEN Append(user_collection[u], t.arg) ELSE <<t.arg>>)
          /\ group_user_totals' = BumpGroupUser(group_user_totals, u, t.chat)
          /\ guess_tasks' =
               [guess_tasks EXCEPT
                  ![u].pc = "write_group",
                  ![u].arg = 0,
                  ![u].found = \E i \in 1..Len(top_global_groups) :
                                  top_global_groups[i].group_id = t.chat]
  /\ UNCHANGED stores
  /\ UNCHANGED << locks, message_counts, currently_spawning, sent_characters,
                  last_characters, first_correct_guesses, spawn_messages,
                  spawn_message_links, send_image_tasks, despawn_tasks,
                  chat_messages, top_global_groups, reply, winners >>

\* lines 821-877: the $inc or the insert_one reaches top_global_groups, then
\* line 843 reads last_characters[chat_id] for the success message
GuessWriteGroup(u) ==
  LET t == guess_tasks[u] IN
  /\ t.pc = "write_group"
  /\ top_global_groups' =
       IF t.found
       THEN IncFirst(top_global_groups,
                     {i \in 1..Len(top_global_groups) :
                        top_global_groups[i].group_id = t.chat})
       ELSE Append(top_global_groups, [group_id |-> t.chat, count |-> 1])
  /\ guess_tasks' =
       [guess_tasks EXCEPT
          ![u].pc = IF Has(last_characters, t.chat) THEN "reply" ELSE "failed",
          ![u].found = FALSE]
  /\ UNCHANGED stores
  /\ UNCHANGED << locks, message_counts, currently_spawning, sent_characters,
                  last_characters, first_correct_guesses, spawn_messages,
                  spawn_message_links, send_image_tasks, despawn_tasks,
                  chat_messages, user_collection, group_user_totals, reply,
                  winners >>

\* lines 877-883: the success message is sent, the permalink is popped
GuessReply(u) ==
  LET t == guess_tasks[u] IN
  /\ t.pc = "reply"
  /\ spawn_message_links' = Pop(spawn_message_links, t.chat)
  /\ guess_tasks' = [guess_tasks EXCEPT ![u].pc = "done"]
  /\ UNCHANGED stores
  /\ UNCHANGED << locks, message_counts, currently_spawning, sent_characters,
                  last_characters, first_correct_guesses, spawn_messages,
                  send_image_tasks, despawn_tasks, chat_messages,
                  user_collection, group_user_totals, top_global_groups, reply,
                  winners >>

\* ------------------------------------------------------------ daily_claim
IdleDailies == {i \in DailyIds : daily_claim_tasks[i].pc = "idle"}

\* the next invocation of daily_claim to arrive
NextDailyId == CHOOSE i \in IdleDailies : \A j \in IdleDailies : i <= j

\* a mutant of DailyGuard: active_claims is not consulted
DailyGuardOff(u) == FALSE

\* hclaim.py line 41
DailyGuard(u) == u \in active_claims

\* a mutant of ActiveAfterExit: the id is left in the set
ActiveAfterExitStuck(u) == active_claims

\* hclaim.py lines 101-102: finally: active_claims.discard(uid)
ActiveAfterExit(u) == active_claims \ {u}

\* hclaim.py lines 50-58: a last claim is stored and less than 24 hours
\* lie between it and now
InCooldown(u, now) ==
  Has(last_daily_claim, u) /\ now - last_daily_claim[u] < Day

\* hclaim.py lines 37-49: /hclaim arrives; the guard answers or the id is
\* added, now is read and find_one on the user is awaited
daily_claim(u) ==
  /\ IdleDailies # {}
  /\ IF DailyGuard(u)
     THEN /\ daily_claim_tasks' =
               [daily_claim_tasks EXCEPT ![NextDailyId].pc = "processing",
                                         ![NextDailyId].user = u]
          /\ UNCHANGED active_claims
     ELSE /\ active_claims' = active_claims \cup {u}
          /\ daily_claim_tasks' =
               [daily_claim_tasks EXCEPT ![NextDailyId].pc = "find",
                                         ![NextDailyId].user = u,
                                         ![NextDailyId].now = clock]
  /\ UNCHANGED << user_collection, last_daily_claim, clock >>
  /\ UNCHANGED main_state

\* hclaim.py lines 42-43: the 'Processing' reply returns or raises, and the
\* invocation ends outside the try
DailyProcessing(i) ==
  /\ daily_claim_tasks[i].pc = "processing"
  /\ daily_claim_tasks' =
       [daily_claim_tasks EXCEPT ![i].pc = "done", ![i].exit = "rejected"]
  /\ UNCHANGED << active_claims, user_collection, last_daily_claim, clock >>
  /\ UNCHANGED main_state

\* hclaim.py lines 49-66: find_one returns or raises; the cooldown test
DailyFind(i) ==
  LET t == daily_claim_tasks[i] IN
  /\ t.pc = "find"
  /\ \E raised \in BOOLEAN :
       daily_claim_tasks' =
         [daily_claim_tasks EXCEPT
            ![i].pc = IF raised THEN "error"
                      ELSE IF InCooldown(t.user, t.now) THEN "cooldown"
                      ELSE "fetch"]
  /\ UNCHANGED << active_claims, user_collection, last_daily_claim, clock >>
  /\ UNCHANGED main_state

\* hclaim.py lines 17-29 and 66-71: fetch_character returns a character of
\* the catalog whose id the user does not hold, or None when there is none
\* or a call of it raised.  Its two awaits are taken in one step: the only
\* writer of this user's characters in between would be guess.
DailyFetch(i) ==
  LET t == daily_claim_tasks[i]
      claimed_ids ==
        IF Has(user_collection, t.user)
        THEN {user_collection[t.user][k].char.id : k \in 1..Len(user_collection[t.user])}
        ELSE {}
  IN
  /\ t.pc = "fetch"
  /\ \E raised \in BOOLEAN, all_characters \in collection :
       LET result == SelectSeq(all_characters, LAMBDA c : c.id \notin claimed_ids) IN
       IF raised \/ result = <<>>
       THEN daily_claim_tasks' = [daily_claim_tasks EXCEPT ![i].pc = "nochar"]
       ELSE \E k \in 1..Len(result) :
              daily_claim_tasks' =
                [daily_claim_tasks EXCEPT ![i].pc = "update", ![i].char = result[k]]
  /\ UNCHANGED << active_claims, user_collection, last_daily_claim, clock >>
  /\ UNCHANGED main_state

\* hclaim.py lines 71-97: update_one with upsert=True returns or raises; the
\* character is pushed and last_daily_claim is set to the now of line 48
DailyUpdate(i) ==
  LET t == daily_claim_tasks[i]
      characters == IF Has(user_collection, t.user) THEN user_collection[t.user] ELSE <<>>
  IN
  /\ t.pc = "update"
  /\ \E raised \in BOOLEAN :
       IF raised
       THEN /\ daily_claim_tasks' =
                 [daily_claim_tasks EXCEPT ![i].pc = "error", ![i].char = 0]
            /\ UNCHANGED << user_collection, last_daily_claim >>
       ELSE /\ user_collection' =
                 Put(user_collection, t.user,
                     Append(characters, [char |-> t.char, spawn |-> 0]))
            /\ last_daily_claim' = Put(last_daily_claim, t.user, t.now)
            /\ daily_claim_tasks' =
                 [daily_claim_tasks EXCEPT ![i].pc = "photo", ![i].char = 0,
                                           ![i].appended = TRUE]
  /\ UNCHANGED << active_claims, clock >>
  /\ UNCHANGED main_state

\* hclaim.py lines 60-64, 68-69 and 92-102: the reply of an invocation that
\* is in its cooldown, got no character or has claimed returns, and the
\* finally clause runs; or the reply raises
DailyReply(i) ==
  LET t == daily_claim_tasks[i] IN
  /\ t.pc \in {"cooldown", "nochar", "photo"}
  /\ \E raised \in BOOLEAN :
       IF raised
       THEN /\ daily_claim_tasks' = [daily_claim_tasks EXCEPT ![i].pc = "error"]
            /\ UNCHANGED active_claims
       ELSE /\ daily_claim_tasks' =
                 [daily_claim_tasks EXCEPT
                    ![i].pc = "done",
                    ![i].exit = IF t.pc = "photo" THEN "success" ELSE t.pc]
            /\ active_claims' = ActiveAfterExit(t.user)
  /\ UNCHANGED << user_collection, last_daily_claim, clock >>
  /\ UNCHANGED main_state

\* hclaim.py lines 98-102: the 'Error occurred' reply returns or raises, and
\* the finally clause runs
DailyError(i) ==
  LET t == daily_claim_tasks[i] IN
  /\ t.pc = "error"
  /\ daily_claim_tasks' =
       [daily_claim_tasks EXCEPT ![i].pc = "done", ![i].exit = "exception"]
  /\ active_claims' = ActiveAfterExit(t.user)
  /\ UNCHANGED << user_collection, last_daily_claim, clock >>
  /\ UNCHANGED main_state

\* twelve hours pass
Tick ==
  /\ clock < MaxClock
  /\ clock' = clock + 1
  /\ UNCHANGED << active_claims, daily_claim_tasks, user_collection, last_daily_claim >>
  /\ UNCHANGED main_state

\* ---------------------------------------------------------- specification
\* Spec follows one user through MaxSpawns spawns of one chat.
FirstUser == {"u1"}

FirstChat == {"A"}

Next ==
  \/ \E chat \in FirstChat \cup PrivateChats : message_counter(chat, MaxSpawns, FALSE)
  \/ \E p \in SpawnIds : SendFetch(p)
  \/ \E p \in SpawnIds : SendSelect(p)
  \/ \E p \in SpawnIds : SendPost(p)
  \/ \E p \in SpawnIds : DespawnFire(p)
  \/ \E p \in SpawnIds : DespawnDelete(p)
  \/ \E p \in SpawnIds : DespawnMissed(p)
  \/ \E p \in SpawnIds : DespawnClear(p)
  \/ \E u \in FirstUser, chat \in FirstChat, args \in GuessArgs : guess(u, chat, args, FALSE)
  \/ \E u \in Users : GuessDelete(u)
  \/ \E u \in Users : GuessFindUser(u)
  \/ \E u \in Users : GuessPush(u)
  \/ \E u \in Users : GuessWriteGroup(u)
  \/ \E u \in Users : GuessReply(u)

Spec == Init /\ [][Next]_vars

\* SpecClaims follows all users through MaxClaimSpawns spawns and records
\* the answer every guess gets.
NextClaims ==
  \/ \E chat \in FirstChat \cup PrivateChats : message_counter(chat, MaxClaimSpawns, FALSE)
  \/ \E p \in SpawnIds : SendFetch(p)
  \/ \E p \in SpawnIds : SendSelect(p)
  \/ \E p \in SpawnIds : SendPost(p)
  \/ \E p \in SpawnIds : DespawnFire(p)
  \/ \E p \in SpawnIds : DespawnDelete(p)
  \/ \E p \in SpawnIds : DespawnMissed(p)
  \/ \E p \in SpawnIds : DespawnClear(p)
  \/ \E u \in Users, chat \in FirstChat, args \in GuessArgs : guess(u, chat, args, TRUE)
  \/ \E u \in Users : GuessDelete(u)
  \/ \E u \in Users : GuessFindUser(u)
  \/ \E u \in Users : GuessPush(u)
  \/ \E u \in Users : GuessWriteGroup(u)
  \/ \E u \in Users : GuessReply(u)

SpecClaims == Init /\ [][NextClaims]_vars

\* SpecMatch follows one user through the spawn of one character whose name
\* is drawn from MatchNames: while nobody has won it and its timer sleeps
\* the user sends every /grab text of at most MaxArgs words over
\* MatchTokens, and at any time the texts of GuessArgs.
MatchTokens == {tAb, tba, tb, tbAmp, tbPar}

MatchArgs == UNION {[1..n -> MatchTokens] : n \in 0..MaxArgs}

nAbBa == <<"A", "b", " ", "B", "a">>
nSpaced == <<" ", "a", "b", " ", " ", "b", "a">>
nPar == <<"B", "(", ")">>
nTwice == <<"a", "b", " ", "a", "b">>
nBBa == <<"B", " ", "B", "a">>

MatchNames == {nAbBa, Char1.name, nSpaced, nPar, nTwice, nBBa}

MatchCatalog(name) == << [Char1 EXCEPT !.name = name] >>

\* The state in which send_image has just published the character as the
\* first spawn of chat "A" (lines 658-706), with catalogs the lists find({})
\* may return from then on.
Published(character, catalogs) ==
  /\ locks = Put(EmptyDict, "A", "lock")
  /\ message_counts = Put(EmptyDict, "A", 0)
  /\ currently_spawning = Put(EmptyDict, "A", FALSE)
  /\ sent_characters = Put(EmptyDict, "A", <<character.id>>)
  /\ last_characters = Put(EmptyDict, "A", [char |-> character, spawn |-> 1])
  /\ first_correct_guesses = EmptyDict
  /\ spawn_messages = Put(EmptyDict, "A", 1)
  /\ spawn_message_links = Put(EmptyDict, "A", <<"A", 1>>)
  /\ send_image_tasks =
       [p \in SpawnIds |->
          IF p = 1 THEN [IdleSend EXCEPT !.pc = "published", !.chat = "A"]
          ELSE IdleSend]
  /\ despawn_tasks =
       [p \in SpawnIds |->
          IF p = 1 THEN [pc |-> "sleep", chat |-> "A", character |-> character,
                         claimedAtFire |-> FALSE]
          ELSE IdleDespawn]
  /\ guess_tasks = [u \in Users |-> IdleGuess]
  /\ chat_messages = {SpawnMsg(1)}
  /\ user_collection = EmptyDict
  /\ group_user_totals = <<>>
  /\ top_global_groups = <<>>
  /\ reply = [chat |-> "-", args |-> <<>>, res |-> "none"]
  /\ winners = [p \in SpawnIds |-> {}]
  /\ NoDailyClaim
  /\ collection = catalogs
  /\ group_rarity_collection = GroupRarity
  /\ spawn_settings = GlobalRarities

InitMatch ==
  \E name \in MatchNames : Published(MatchCatalog(name)[1], {MatchCatalog(name)})

NextMatch ==
  \/ \E p \in SpawnIds : DespawnFire(p)
  \/ \E p \in SpawnIds : DespawnDelete(p)
  \/ \E p \in SpawnIds : DespawnMissed(p)
  \/ \E p \in SpawnIds : DespawnClear(p)
  \/ \E u \in FirstUser, chat \in FirstChat, args \in MatchArgs :
       /\ Has(last_characters, chat) /\ ~Has(first_correct_guesses, chat)
       /\ despawn_tasks[last_characters[chat].spawn].pc = "sleep"
       /\ guess(u, chat, args, TRUE)
  \/ \E u \in FirstUser, chat \in FirstChat, args \in GuessArgs : guess(u, chat, args, TRUE)
  \/ \E u \in Users : GuessDelete(u)
  \/ \E u \in Users : GuessFindUser(u)
  \/ \E u \in Users : GuessPush(u)
  \/ \E u \in Users : GuessWriteGroup(u)
  \/ \E u \in Users : GuessReply(u)

SpecMatch == InitMatch /\ [][NextMatch]_vars

\* SpecRespawn follows one user through the spawns of one chat after its
\* first, while the expiry timers sleep and find({}) returns the one
\* character already shown, the two characters, a removed character only,
\* or nothing.
RespawnCatalogs == {<<Char1>>, <<Char1, Char2>>, <<Char3>>, <<>>}

InitRespawn == Published(Char1, RespawnCatalogs)

NextRespawn ==
  \/ \E chat \in FirstChat : message_counter(chat, MaxSpawns, FALSE)
  \/ \E p \in SpawnIds : SendFetch(p)
  \/ \E p \in SpawnIds : SendSelect(p)
  \/ \E p \in SpawnIds : SendPost(p)
  \/ \E u \in FirstUser, chat \in FirstChat, args \in GuessArgs : guess(u, chat, args, FALSE)
  \/ \E u \in Users : GuessDelete(u)
  \/ \E u \in Users : GuessFindUser(u)
  \/ \E u \in Users : GuessPush(u)
  \/ \E u \in Users : GuessWriteGroup(u)
  \/ \E u \in Users : GuessReply(u)

SpecRespawn == InitRespawn /\ [][NextRespawn]_vars

\* SpecRespawnFair is SpecRespawn with the scheduling of the event loop: a
\* send_image task that waits at an await is resumed when the call it
\* awaits returns or raises.
SpecRespawnFair ==
  /\ InitRespawn
  /\ [][NextRespawn]_vars
  /\ \A p \in SpawnIds :
       /\ WF_vars(SendFetch(p))
       /\ WF_vars(SendSelect(p))
       /\ WF_vars(SendPost(p))

\* SpecOwners follows all users through the spawns of one chat after its
\* first, while the expiry timers sleep and the catalog is the one
\* character.
InitOwners == Published(Char1, {<<Char1>>})

NextOwners ==
  \/ \E chat \in FirstChat : message_counter(chat, MaxSpawns, FALSE)
  \/ \E p \in SpawnIds : SendFetch(p)
  \/ \E p \in SpawnIds : SendSelect(p)
  \/ \E p \in SpawnIds : SendPost(p)
  \/ \E u \in Users, chat \in FirstChat, args \in GuessArgs : guess(u, chat, args, FALSE)
  \/ \E u \in Users : GuessDelete(u)
  \/ \E u \in Users : GuessFindUser(u)
  \/ \E u \in Users : GuessPush(u)
  \/ \E u \in Users : GuessWriteGroup(u)
  \/ \E u \in Users : GuessReply(u)

SpecOwners == InitOwners /\ [][NextOwners]_vars

\* SpecStuck follows the attempts of one chat after its first spawn when
\* the catalog holds the character of that spawn and a removed character.
InitStuck == Published(Char1, {<<Char1, Char3>>})

NextStuck ==
  \/ \E chat \in FirstChat : message_counter(chat, MaxSpawns, FALSE)
  \/ \E p \in SpawnIds : SendFetch(p)
  \/ \E p \in SpawnIds : SendSelect(p)
  \/ \E u \in FirstUser, chat \in FirstChat, args \in GuessArgs : guess(u, chat, args, FALSE)
  \/ \E u \in Users : GuessDelete(u)
  \/ \E u \in Users : GuessFindUser(u)
  \/ \E u \in Users : GuessPush(u)
  \/ \E u \in Users : GuessWriteGroup(u)
  \/ \E u \in Users : GuessReply(u)

SpecStuck == InitStuck /\ [][NextStuck]_vars

\* SpecOverlap follows a chat from the state in which its spawning flag is
\* gone while a pipeline is in flight: the first spawn of the chat carried
\* Char1 and went unclaimed; the messages after it dispatched pipeline 1,
\* which still awaits the catalog; the timer of the first spawn has run to
\* its end and popped the chat's entries (lines 474-477); and the chat has
\* received all but one of the messages of the next dispatch.
InitOverlap ==
  /\ locks = Put(EmptyDict, "A", "lock")
  /\ message_counts = Put(EmptyDict, "A", MESSAGE_FREQUENCY - 1)
  /\ currently_spawning = EmptyDict
  /\ sent_characters = Put(EmptyDict, "A", <<Char1.id>>)
  /\ last_characters = EmptyDict
  /\ first_correct_guesses = EmptyDict
  /\ spawn_messages = EmptyDict
  /\ spawn_message_links = EmptyDict
  /\ send_image_tasks =
       [p \in SpawnIds |->
          IF p = 1 THEN [IdleSend EXCEPT !.pc = "fetch", !.chat = "A"]
          ELSE IdleSend]
  /\ despawn_tasks = [p \in SpawnIds |-> IdleDespawn]
  /\ guess_tasks = [u \in Users |-> IdleGuess]
  /\ chat_messages = {}
  /\ user_collection = EmptyDict
  /\ group_user_totals = <<>>
  /\ top_global_groups = <<>>
  /\ reply = [chat |-> "-", args |-> <<>>, res |-> "none"]
  /\ winners = [p \in SpawnIds |-> {}]
  /\ NoDailyClaim
  /\ collection = {<<Char1, Char2>>}
  /\ group_rarity_collection = GroupRarity
  /\ spawn_settings = GlobalRarities

NextOverlap ==
  \/ \E chat \in FirstChat : message_counter(chat, MaxSpawns, FALSE)
  \/ \E p \in SpawnIds : SendFetch(p)
  \/ \E p \in SpawnIds : SendSelect(p)
  \/ \E p \in SpawnIds : SendPost(p)
  \/ \E u \in FirstUser, chat \in FirstChat, args \in GuessArgs : guess(u, chat, args, FALSE)
  \/ \E u \in Users : GuessDelete(u)
  \/ \E u \in Users : GuessFindUser(u)
  \/ \E u \in Users : GuessPush(u)
  \/ \E u \in Users : GuessWriteGroup(u)
  \/ \E u \in Users : GuessReply(u)

SpecOverlap == InitOverlap /\ [][NextOverlap]_vars

\* SpecCount follows the messages of one chat and the pipelines they
\* dispatch, from the start of the program.
NextCount ==
  \/ \E chat \in FirstChat : message_counter(chat, MaxSpawns, FALSE)
  \/ \E p \in SpawnIds : SendFetch(p)
  \/ \E p \in SpawnIds : SendSelect(p)
  \/ \E p \in SpawnIds : SendPost(p)

SpecCount == Init /\ [][NextCount]_vars

\* SpecDaily follows the invocations of /hclaim by all users while the
\* clock advances; the catalog has two characters, so that a user can
\* claim on two days.
InitDaily ==
  /\ Constructed
  /\ collection = {<<Char1, Char2>>}
  /\ group_rarity_collection = GroupRarity
  /\ spawn_settings = GlobalRarities

NextDaily ==
  \/ \E u \in Users : daily_claim(u)
  \/ \E i \in DailyIds : DailyProcessing(i)
  \/ \E i \in DailyIds : DailyFind(i)
  \/ \E i \in DailyIds : DailyFetch(i)
  \/ \E i \in DailyIds : DailyUpdate(i)
  \/ \E i \in DailyIds : DailyReply(i)
  \/ \E i \in DailyIds : DailyError(i)
  \/ Tick

SpecDaily == InitDaily /\ [][NextDaily]_vars

\* SpecDailyFair is SpecDaily with the scheduling of the event loop: an
\* invocation that waits at an await is resumed when the call it awaits
\* returns or raises.
SpecDailyFair ==
  /\ InitDaily
  /\ [][NextDaily]_vars
  /\ \A i \in DailyIds :
       /\ WF_vars(DailyProcessing(i))
       /\ WF_vars(DailyFind(i))
       /\ WF_vars(DailyFetch(i))
       /\ WF_vars(DailyUpdate(i))
       /\ WF_vars(DailyReply(i))
       /\ WF_vars(DailyError(i))

\* SpecPolicy follows the first spawn of each chat under a rarity policy:
\* the documents of group_rarity_collection and of the spawn settings and
\* the catalog are one of the combinations below, and every chat has
\* received all but one of the messages of its first spawn.
CharV == [id |-> 4, name |-> <<"b", "a">>,
          rarity |-> <<"v", " ", "V">>, removed |-> FALSE, is_video |-> TRUE]

PolicyCatalogs == {<<Char1, CharV>>, <<CharV>>, <<Char1, Char2>>, <<Char2>>,
                   FullCatalog, <<Char3, CharV>>, <<CharV, Char2, Char1>>}

Grant(chat_id, emoji) == [chat_id |-> chat_id, rarity_emoji |-> emoji, chance |-> 10]

\* a row without a chance of its own
GrantDefault(chat_id, emoji) == [chat_id |-> chat_id, rarity_emoji |-> emoji]

PolicyGrants == {{}, {Grant("A", <<"v">>)}, {Grant("A", <<"r">>)}, {Grant("M", <<"r">>)},
                 {GrantDefault("M", <<"c">>)},
                 {[Grant("A", <<"c">>) EXCEPT !.chance = 7]}}

Setting(emoji, enabled) == [emoji |-> emoji, enabled |-> enabled, chance |-> 5]

\* a rarity without a chance of its own
SettingDefault(emoji, enabled) == [emoji |-> emoji, enabled |-> enabled]

\* the last two: no policy data at all, and settings that leave one tag
\* out and have chances that differ, one of them 0
PolicySettings ==
  { << Setting(<<"c">>, TRUE), Setting(<<"r">>, TRUE), Setting(<<"v">>, TRUE) >>,
    << Setting(<<"c">>, TRUE), Setting(<<"r">>, FALSE), Setting(<<"v">>, FALSE) >>,
    << >>,
    << [Setting(<<"v">>, TRUE) EXCEPT !.chance = 0],
       SettingDefault(<<"r">>, TRUE) >> }

\* the state after count messages in each of the chats, none of them
\* dispatching a spawn
AfterMessages(chats, count) ==
  /\ locks = [chat \in chats |-> "lock"]
  /\ message_counts = [chat \in chats |-> count]
  /\ currently_spawning = EmptyDict
  /\ sent_characters = EmptyDict
  /\ last_characters = EmptyDict
  /\ first_correct_guesses = EmptyDict
  /\ spawn_messages = EmptyDict
  /\ spawn_message_links = EmptyDict
  /\ send_image_tasks = [p \in SpawnIds |-> IdleSend]
  /\ despawn_tasks = [p \in SpawnIds |-> IdleDespawn]
  /\ guess_tasks = [u \in Users |-> IdleGuess]
  /\ chat_messages = {}
  /\ user_collection = EmptyDict
  /\ group_user_totals = <<>>
  /\ top_global_groups = <<>>
  /\ reply = [chat |-> "-", args |-> <<>>, res |-> "none"]
  /\ winners = [p \in SpawnIds |-> {}]
  /\ NoDailyClaim

InitPolicy ==
  /\ AfterMessages(Chats, MESSAGE_FREQUENCY - 1)
  /\ \E catalog \in PolicyCatalogs : collection = {catalog}
  /\ group_rarity_collection \in PolicyGrants
  /\ spawn_settings \in PolicySettings

NextPolicy ==
  \/ \E chat \in Chats : DispatchedIn(chat) = {} /\ message_counter(chat, MaxSpawns, FALSE)
  \/ \E p \in SpawnIds : SendFetch(p)
  \/ \E p \in SpawnIds : SendSelect(p)
  \/ \E p \in SpawnIds : SendPost(p)

SpecPolicy == InitPolicy /\ [][NextPolicy]_vars

\* SpecChats follows the first spawn of each of the two group chats, with
\* its guesses and its expiry, and the messages of a private chat; every
\* group chat has received all but two of the messages of its first spawn.
InitChats ==
  /\ AfterMessages(Chats, MESSAGE_FREQUENCY - 2)
  /\ collection = {<<Char1, Char2>>}
  /\ group_rarity_collection = GroupRarity
  /\ spawn_settings = GlobalRarities

NextChats ==
  \/ \E chat \in Chats : DispatchedIn(chat) = {} /\ message_counter(chat, MaxSpawns, FALSE)
  \/ \E chat \in PrivateChats : message_counter(chat, MaxSpawns, TRUE)
  \/ \E p \in SpawnIds : SendFetch(p)
  \/ \E p \in SpawnIds : SendSelect(p)
  \/ \E p \in SpawnIds : SendPost(p)
  \/ \E p \in SpawnIds : DespawnFire(p)
  \/ \E p \in SpawnIds : DespawnDelete(p)
  \/ \E p \in SpawnIds : DespawnMissed(p)
  \/ \E p \in SpawnIds : DespawnClear(p)
  \/ \E u \in FirstUser, chat \in Chats, args \in GuessArgs : guess(u, chat, args, FALSE)
  \/ \E u \in Users : GuessDelete(u)
  \/ \E u \in Users : GuessFindUser(u)
  \/ \E u \in Users : GuessPush(u)
  \/ \E u \in Users : GuessWriteGroup(u)
  \/ \E u \in Users : GuessReply(u)

SpecChats == InitChats /\ [][NextChats]_vars

\* ------------------------------------------------------------ properties
\* The spawn p has been posted, nobody has won it, and its own expiry timer
\* is still asleep.
Live(p) == despawn_tasks[p].pc = "sleep" /\ winners[p] = {}

InFlight(u) == guess_tasks[u].pc \in {"delete", "find_user", "push", "write_group", "reply"}

\* The guess text passes the two screens of lines 731-739 and names the
\* character.
Matches(character, args) ==
  LET text == StrLower(Join(args)) IN
  /\ text # <<>>
  /\ ~Contains(text, <<"&">>)
  /\ ~Contains(text, <<"(", ")">>)
  /\ IsCorrect(character, text)

\* How often the character dict stored for spawn p stands in u's collection.
Received(u, p) ==
  IF Has(user_collection, u)
  THEN Cardinality({i \in 1..Len(user_collection[u]) : user_collection[u][i].spawn = p})
  ELSE 0

\* C1: a spawn never has two winners; while it is the chat's character, a
\* guess naming it is Accepted if nobody has won it yet and AlreadyClaimed
\* from the moment somebody has.
C1_ExactlyOneWinner ==
  /\ \A p \in SpawnIds : Cardinality(winners[p]) <= 1
  /\ \A chat \in Chats, args \in GuessArgs :
       (Has(last_characters, chat) /\ Matches(last_characters[chat].char, args)) =>
         GuessResult(chat, args) =
           IF winners[last_characters[chat].spawn] = {}
           THEN "Accepted" ELSE "AlreadyClaimed"

\* C1 witness: one user has won the spawn and is still busy with the side
\* effects while another user's matching guess was answered AlreadyClaimed.
C1_Witness ==
  \E u \in Users, chat \in Chats :
    /\ InFlight(u)
    /\ Has(last_characters, chat)
    /\ last_characters[chat].spawn = guess_tasks[u].spawn
    /\ winners[guess_tasks[u].spawn] = {u}
    /\ reply.res = "AlreadyClaimed"
    /\ Matches(last_characters[chat].char, reply.args)

\* C2: in every chat at most one spawn is live.
C2_AtMostOneLiveSpawn ==
  \A chat \in Chats :
    Cardinality({p \in SpawnIds : Live(p) /\ despawn_tasks[p].chat = chat}) <= 1

\* C3: a live spawn is the chat's character and has no winner recorded, so
\* that a guess naming it is Accepted until its own timer fires.
C3_ClaimableUntilOwnExpiry ==
  \A p \in SpawnIds :
    Live(p) =>
      LET chat == despawn_tasks[p].chat IN
      /\ Has(last_characters, chat)
      /\ last_characters[chat].spawn = p
      /\ ~Has(first_correct_guesses, chat)

\* C4: an expiry timer that fired after its spawn was won never enters the
\* unclaimed path: it deletes nothing and posts no 'missed' notice.
C4_ClaimedExpiryIsNoop ==
  \A p \in SpawnIds :
    despawn_tasks[p].claimedAtFire =>
      /\ despawn_tasks[p].pc \notin {"delete", "missed", "grace", "error"}
      /\ MissedMsg(p) \notin chat_messages

\* C5: the step in which the timer of an already won spawn fires leaves the
\* chat's character, permalink, message handle and spawning flag as they are.
C5_ClaimedExpiryFrame ==
  [][\A p \in SpawnIds :
       (despawn_tasks[p].pc = "sleep" /\ despawn_tasks'[p].pc # "sleep"
          /\ winners[p] # {}) =>
         /\ last_characters' = last_characters
         /\ spawn_message_links' = spawn_message_links
         /\ spawn_messages' = spawn_messages
         /\ currently_spawning' = currently_spawning]_vars

\* C6: a spawn gets its winner only before its expiry timer has fired.
C6_NoClaimAfterExpiry ==
  [][\A p \in SpawnIds :
       winners'[p] # winners[p] => despawn_tasks[p].pc \in {"idle", "sleep"}]_vars

\* C7: when the handler of an accepted claim has run to its end, the
\* character of the spawn it won stands exactly once in the winner's
\* collection.
C7_AcceptedClaimAppendsOnce ==
  \A u \in Users :
    guess_tasks[u].pc \in {"done", "failed"} => Received(u, guess_tasks[u].spawn) = 1

\* the chat's counter before the step, absent read as 0
CountOf(chat) == IF Has(message_counts, chat) THEN message_counts[chat] ELSE 0

\* the step is a message of this chat: its counter is created or changed
Counted(chat) ==
  /\ Has(message_counts', chat)
  /\ ~Has(message_counts, chat) \/ message_counts'[chat] # message_counts[chat]

Dispatched == {p \in SpawnIds : send_image_tasks[p].pc # "idle"}

\* C8: a message of a group chat raises the count by one; it dispatches
\* exactly one pipeline, setting spawning and zeroing the count in the same
\* step, iff the raised count is at least the threshold and spawning is
\* false; otherwise no pipeline starts and spawning is as it was.
C8_OnMessage ==
  [][\A chat \in Chats :
       Counted(chat) =>
         IF /\ CountOf(chat) + 1 >= MESSAGE_FREQUENCY
            /\ ~(Has(currently_spawning, chat) /\ currently_spawning[chat])
         THEN /\ message_counts'[chat] = 0
              /\ currently_spawning' = Put(currently_spawning, chat, TRUE)
              /\ Cardinality(Dispatched') = Cardinality(Dispatched) + 1
              /\ \A p \in Dispatched' \ Dispatched :
                   send_image_tasks'[p].chat = chat /\ send_image_tasks'[p].pc = "fetch"
         ELSE /\ message_counts'[chat] = CountOf(chat) + 1
              /\ currently_spawning' = currently_spawning
              /\ send_image_tasks' = send_image_tasks]_vars

\* C8 witness: after the first pipeline ended, the message that brought the
\* count to the threshold has just dispatched the second one: the count is
\* 0 again and spawning is true.
C8_Witness ==
  \E chat \in Chats :
    /\ Has(message_counts, chat) /\ message_counts[chat] = 0
    /\ Spawning(chat)
    /\ send_image_tasks[2].pc = "fetch"
    /\ send_image_tasks[1].pc = "failed"

\* C9: the step in which a pipeline ends with an exception leaves spawning
\* false, and a message that brings the count to the threshold while
\* spawning is false dispatches a pipeline.
C9_SpawningClearedOnError ==
  [][/\ \A p \in SpawnIds :
          (send_image_tasks[p].pc # "failed" /\ send_image_tasks'[p].pc = "failed") =>
            /\ Has(currently_spawning', send_image_tasks[p].chat)
            /\ ~currently_spawning'[send_image_tasks[p].chat]
     /\ \A chat \in Chats :
          (/\ Counted(chat)
           /\ CountOf(chat) + 1 >= MESSAGE_FREQUENCY
           /\ \E p \in SpawnIds : send_image_tasks[p].pc = "failed"
                                   /\ send_image_tasks[p].chat = chat
           /\ ~(Has(currently_spawning, chat) /\ currently_spawning[chat])) =>
            \E p \in SpawnIds : send_image_tasks[p].pc = "idle"
                                /\ send_image_tasks'[p].pc = "fetch"]_vars

\* C9 witness: the first pipeline raised while posting and the chat has
\* dispatched a second one afterwards.
C9_Witness ==
  \E chat \in Chats :
    /\ send_image_tasks[1].pc = "failed" /\ send_image_tasks[1].chat = chat
    /\ Has(last_characters, chat) /\ last_characters[chat].spawn = 1
    /\ send_image_tasks[2].pc = "fetch" /\ send_image_tasks[2].chat = chat
    /\ Spawning(chat)

\* C10: the answer to a guess is NoActiveSpawn when the chat has no
\* character, else AlreadyClaimed when a winner is recorded, else Rejected
\* when the text is empty or holds '()' or '&' (also when it names the
\* character).
C10_PreconditionOrder ==
  [][\A u \in Users, chat \in Chats, args \in GuessArgs :
       guess(u, chat, args, TRUE) =>
         LET text == StrLower(Join(args))
             screened == \/ text = <<>>
                         \/ Contains(text, <<"&">>)
                         \/ Contains(text, <<"(", ")">>)
         IN /\ ~Has(last_characters, chat) => reply'.res = "NoActiveSpawn"
            /\ (Has(last_characters, chat) /\ Has(first_correct_guesses, chat)) =>
                 reply'.res = "AlreadyClaimed"
            /\ (Has(last_characters, chat) /\ ~Has(first_correct_guesses, chat)
                  /\ screened) => reply'.res = "Rejected"]_vars

\* C10 witness: a guess with '&' that names the won character was answered
\* AlreadyClaimed.
C10_Witness ==
  \E chat \in Chats :
    /\ reply = [chat |-> chat, args |-> <<tbAmp, tab>>, res |-> "AlreadyClaimed"]
    /\ Has(last_characters, chat)
    /\ Has(first_correct_guesses, chat)
    /\ IsCorrect(last_characters[chat].char, StrLower(Join(reply.args)))

\* ---------------------------------------------------------- matching rule
\* lower-cased and split at white space
Tokens(s) == Split(StrLower(s))

\* lower-cased, with every run of white space made one blank and none at
\* the ends
Norm(s) == Join(Tokens(s))

\* b holds the items of a in some order
IsPermutation(a, b) ==
  /\ Len(a) = Len(b)
  /\ \E f \in [1..Len(a) -> 1..Len(a)] :
       /\ \A i, j \in 1..Len(a) : f[i] = f[j] => i = j
       /\ \A i \in 1..Len(a) : b[f[i]] = a[i]

\* the matching rule in the words of C11
MatchRule(name, text) ==
  LET words == Tokens(name)
      given == Tokens(text)
  IN \/ IsPermutation(given, words)
     \/ \E i \in 1..Len(words) : Join(given) = words[i]
     \/ Join(given) = Join(words)

Forbidden(text) == Contains(text, <<"(", ")">>) \/ Contains(text, <<"&">>)

\* the chat has a character nobody has won
Unclaimed(chat) == Has(last_characters, chat) /\ ~Has(first_correct_guesses, chat)

\* C11: a guess on an unclaimed spawn, not empty and without '()' and '&',
\* is answered Accepted if lower-cased and white-space normalised its words
\* are the name's words in some order, or it is one word of the name, or it
\* is the whole name; otherwise it is answered Rejected.
C11_MatchingRule ==
  [][reply' # reply =>
       LET chat == reply'.chat
           text == Join(reply'.args)
       IN (Unclaimed(chat) /\ text # <<>> /\ ~Forbidden(text)) =>
            reply'.res = IF MatchRule(last_characters[chat].char.name, text)
                         THEN "Accepted" ELSE "Rejected"]_vars

\* C11 witness: the words of 'Ab Ba' given out of order were Accepted.
C11_Witness ==
  /\ reply = [chat |-> "A", args |-> <<tba, tAb>>, res |-> "Accepted"]
  /\ Has(last_characters, "A") /\ last_characters["A"].char.name = nAbBa
  /\ winners[1] = {"u1"}

\* g is a proper, non-empty beginning of s
IsStrictPrefix(g, s) == g # <<>> /\ Len(g) < Len(s) /\ SubSeq(s, 1, Len(g)) = g

\* the guess stops short inside one word of the name or inside the name
CutShort(name, text) ==
  LET words == Tokens(name)
      given == Norm(text)
  IN \/ \E i \in 1..Len(words) : IsStrictPrefix(given, words[i])
     \/ IsStrictPrefix(given, Join(words))

\* the guess is one of the words of the name
IsWord(name, text) ==
  LET words == Tokens(name)
      given == Norm(text)
  IN \E i \in 1..Len(words) : given = words[i]

\* the guess is a proper beginning of one of the words of the name
IsWordPrefix(name, text) ==
  LET words == Tokens(name)
      given == Norm(text)
  IN \E i \in 1..Len(words) : IsStrictPrefix(given, words[i])

\* C12 as stated: a guess with '()' or '&' is never Accepted, and a guess on
\* an unclaimed spawn that is a strict prefix of a word of the name is
\* Rejected.
C12_PrefixRejected ==
  [][reply' # reply =>
       LET chat == reply'.chat
           text == Join(reply'.args)
       IN /\ reply'.res = "Accepted" => ~Forbidden(StrLower(text))
          /\ (reply'.res # "Rejected" /\ Unclaimed(chat)) =>
               ~IsWordPrefix(last_characters[chat].char.name, text)]_vars

\* C12 amended: a guess with '()' or '&' is never Accepted, also when it is
\* the name or one of its words; a guess on an unclaimed spawn that stops
\* short inside a word of the name, or inside the name, is Rejected unless
\* it is itself a word of the name.
C12_ForbiddenAndCutShort ==
  [][reply' # reply =>
       LET chat == reply'.chat
           text == Join(reply'.args)
       IN /\ reply'.res = "Accepted" => ~Forbidden(StrLower(text))
          /\ (reply'.res # "Rejected" /\ Unclaimed(chat)) =>
               \/ ~CutShort(last_characters[chat].char.name, text)
               \/ IsWord(last_characters[chat].char.name, text)]_vars

\* C12 witness: 'Ab b' was Rejected for the unclaimed 'Ab Ba'.
C12_Witness ==
  /\ reply = [chat |-> "A", args |-> <<tAb, tb>>, res |-> "Rejected"]
  /\ Unclaimed("A") /\ last_characters["A"].char.name = nAbBa

\* C13: an attempt answered NoActiveSpawn, AlreadyClaimed or Rejected
\* changes nothing but the answer: the winner, the character, the message
\* handle, the permalink, the shown list, the count, the collections and
\* the counters are as before.
C13_RejectionFrame ==
  [][(reply' # reply /\ reply'.res \in {"NoActiveSpawn", "AlreadyClaimed", "Rejected"}) =>
       UNCHANGED << first_correct_guesses, last_characters, spawn_messages,
                    spawn_message_links, sent_characters, message_counts,
                    currently_spawning, user_collection, group_user_totals,
                    top_global_groups, chat_messages, guess_tasks,
                    send_image_tasks, despawn_tasks, winners, locks >>]_vars

\* C13 witness: the winner's own second attempt was answered AlreadyClaimed
\* after the handler of the first had finished, and the collection holds
\* the character once.
C13_Witness ==
  /\ reply.res = "AlreadyClaimed"
  /\ guess_tasks["u1"].pc = "done"
  /\ Received("u1", 1) = 1
  /\ Len(top_global_groups) = 1 /\ top_global_groups[1].count = 1

\* the shown list of a chat, empty when the chat has none (line 565)
SentOf(chat) == IF Has(sent_characters, chat) THEN sent_characters[chat] ELSE <<>>

\* every character of the catalog is in the shown list, or the catalog is
\* no longer than the shown list
Exhausted(all_characters, sent0) ==
  \/ \A i \in 1..Len(all_characters) : all_characters[i].id \in Ids(sent0)
  \/ Len(all_characters) <= Len(sent0)

\* the pipeline p took the step from one position to another
Moved(p, from, to) ==
  send_image_tasks[p].pc = from /\ send_image_tasks'[p].pc = to

\* C16: when the catalog arrives and every character of it is in the
\* chat's shown list, or the catalog is no longer than the shown list, the
\* shown list is emptied and the candidates are the whole catalog.
C16_RotationReset ==
  [][\A p \in SpawnIds :
       Moved(p, "fetch", "filter") =>
         LET chat == send_image_tasks[p].chat
             sent0 == SentOf(chat)
         IN \E all_characters \in collection \ {<<>>} :
              /\ Rotate(all_characters, sent0) =
                   [sent |-> sent_characters'[chat],
                    available |-> send_image_tasks'[p].available]
              /\ Exhausted(all_characters, sent0) =>
                   /\ sent_characters'[chat] = <<>>
                   /\ send_image_tasks'[p].available = all_characters
                   /\ send_image_tasks'[p].available # <<>>]_vars

\* C16 witness: the one character of the catalog had been shown, and the
\* second pipeline of the chat has the whole catalog to choose from and an
\* empty shown list.
C16_Witness ==
  /\ send_image_tasks[2].pc = "filter"
  /\ send_image_tasks[2].chat = "A"
  /\ send_image_tasks[2].available = <<Char1>>
  /\ sent_characters["A"] = <<>>
  /\ last_characters["A"].char = Char1

\* C19: the step in which a pipeline finds the catalog empty or no
\* character allowed posts no message, starts no timer, leaves the chat
\* not spawning, and leaves the chat's character, winner, message handle
\* and permalink as they were.
C19_NoCandidates ==
  [][\A p \in SpawnIds :
       (Moved(p, "fetch", "empty") \/ Moved(p, "filter", "noallowed")) =>
         /\ ~Spawning(send_image_tasks[p].chat)'
         /\ UNCHANGED << chat_messages, despawn_tasks, last_characters,
                         first_correct_guesses, spawn_messages,
                         spawn_message_links, winners >>]_vars

\* C19 witness: the second pipeline of the chat found no character allowed
\* while the first spawn is the chat's character and has its winner; the
\* chat is not spawning and the only message is the first spawn's.
C19_Witness ==
  /\ send_image_tasks[2].pc = "noallowed"
  /\ send_image_tasks[2].chat = "A"
  /\ ~Spawning("A")
  /\ last_characters["A"].spawn = 1
  /\ Has(first_correct_guesses, "A") /\ first_correct_guesses["A"] = "u1"
  /\ despawn_tasks[2].pc = "idle"
  /\ chat_messages = {SpawnMsg(1)}

\* C20: a winner once stored for a chat is not replaced by another value;
\* it is removed only in the step in which a pipeline of the chat selects
\* the character of a new spawn; and it is stored only by a guess of the
\* stored user, for the chat's current spawn when that spawn has no winner.
C20_ClaimedOnce ==
  [][\A chat \in Chats :
       /\ (Has(first_correct_guesses, chat) /\ Has(first_correct_guesses', chat)) =>
            first_correct_guesses'[chat] = first_correct_guesses[chat]
       /\ (Has(first_correct_guesses, chat) /\ ~Has(first_correct_guesses', chat)) =>
            \E p \in SpawnIds :
              /\ Moved(p, "filter", "post")
              /\ send_image_tasks[p].chat = chat
              /\ last_characters'[chat].spawn = p
       /\ (~Has(first_correct_guesses, chat) /\ Has(first_correct_guesses', chat)) =>
            LET u == first_correct_guesses'[chat]
                p == last_characters[chat].spawn
            IN /\ guess_tasks'[u] # guess_tasks[u]
               /\ winners[p] = {}
               /\ winners'[p] = {u}]_vars

\* C20 witness: the first spawn was won by one user, the winner was removed
\* for the second spawn, and the second spawn was won by the other user.
C20_Witness ==
  /\ winners[1] = {"u1"}
  /\ winners[2] = {"u2"}
  /\ last_characters["A"].spawn = 2
  /\ first_correct_guesses["A"] = "u2"

\* the characters of the spawns published in a chat
PublishedIn(chat) ==
  {despawn_tasks[p].character :
     p \in {q \in SpawnIds : despawn_tasks[q].pc # "idle" /\ despawn_tasks[q].chat = chat}}

HasGrant(chat, tag) ==
  \E g \in group_rarity_collection : g.chat_id = chat /\ g.rarity_emoji = tag

Disabled(tag) ==
  \E i \in 1..Len(spawn_settings) :
    spawn_settings[i].emoji = tag /\ ~spawn_settings[i].enabled

\* C14: no spawn published in a chat carries a character whose tag is
\* granted to another chat and not to this one.
C14_ExclusiveInvisible ==
  \A B \in Chats : \A character \in PublishedIn(B) :
    LET tag == RarityEmoji(character.rarity)
    IN ~(~HasGrant(B, tag) /\ \E A \in Chats \ {B} : HasGrant(A, tag))

\* C15: no spawn published in a chat carries a character whose tag is
\* disabled in the spawn settings, unless the chat holds the grant of that
\* tag.
C15_DisabledNotSpawned ==
  \A B \in Chats : \A character \in PublishedIn(B) :
    LET tag == RarityEmoji(character.rarity)
    IN Disabled(tag) => HasGrant(B, tag)

\* d.get(k), as a sequence that is empty when the key is absent
Get(d, k) == IF Has(d, k) THEN << d[k] >> ELSE <<>>

\* the state the program keeps for one chat
PerChat(chat) ==
  << Get(message_counts, chat), Get(currently_spawning, chat),
     Get(last_characters, chat), Get(first_correct_guesses, chat),
     Get(sent_characters, chat), Get(spawn_messages, chat),
     Get(spawn_message_links, chat) >>

\* the chats of the pipelines, timers and guess handlers that took the step
ActorChats ==
  ( {send_image_tasks'[p].chat :
       p \in {q \in SpawnIds : send_image_tasks'[q].pc # send_image_tasks[q].pc}}
    \cup {despawn_tasks'[p].chat :
            p \in {q \in SpawnIds : despawn_tasks'[q].pc # despawn_tasks[q].pc}}
    \cup {guess_tasks'[u].chat :
            u \in {v \in Users : guess_tasks'[v].pc # guess_tasks[v].pc}} ) \ {"-"}

\* C17: a step changes the state of at most one chat, and when a pipeline,
\* a timer or a guess handler took the step, that chat is the task's own.
C17_CrossChatFrame ==
  [][\A B \in Chats :
       PerChat(B)' # PerChat(B) =>
         /\ ActorChats \subseteq {B}
         /\ \A A \in Chats \ {B} : PerChat(A)' = PerChat(A)]_vars

\* C17 witness: the spawn of chat A was won and its timer has popped the
\* chat's entries, while the spawn of chat M is still posted, unclaimed and
\* with its handle and permalink stored.
C17_Witness ==
  \E p, q \in SpawnIds :
    /\ despawn_tasks[p].chat = "A" /\ despawn_tasks[p].pc = "done"
    /\ winners[p] = {"u1"}
    /\ ~Has(last_characters, "A") /\ Has(first_correct_guesses, "A")
    /\ despawn_tasks[q].chat = "M" /\ Live(q)
    /\ last_characters["M"].spawn = q
    /\ spawn_messages["M"] = q /\ Has(spawn_message_links, "M")
    /\ sent_characters["M"] # <<>>

\* C18: a chat that is not a group has no lock, no count, no flag and no
\* pipeline, and the step that handles its message changes nothing of the
\* program's state.
C18_PrivateIgnored ==
  [][/\ \A chat \in PrivateChats :
          /\ ~Has(locks', chat) /\ ~Has(message_counts', chat)
          /\ ~Has(currently_spawning', chat) /\ DispatchedIn(chat)' = {}
     /\ (reply' # reply /\ reply'.res = "ignored") =>
          /\ reply'.chat \in PrivateChats
          /\ UNCHANGED << locks, message_counts, currently_spawning,
                          sent_characters, last_characters,
                          first_correct_guesses, spawn_messages,
                          spawn_message_links, send_image_tasks, despawn_tasks,
                          guess_tasks, chat_messages, user_collection,
                          group_user_totals, top_global_groups, winners,
                          stores >>]_vars

\* C18 witness: a message of the private chat was ignored after a group
\* chat had counted a message, and the private chat has no count.
C18_Witness ==
  /\ reply = [chat |-> "P", args |-> <<>>, res |-> "ignored"]
  /\ message_counts["A"] = MESSAGE_FREQUENCY - 1
  /\ ~Has(message_counts, "P")

\* C21: no spawn published in any chat carries a character flagged
\* removed.
C21_RemovedNeverPublished ==
  \A chat \in Chats : \A character \in PublishedIn(chat) : ~character.removed

\* C21 witness: the catalog holds a removed character next to others, both
\* chats have published a spawn and none of them is the removed one.
C21_Witness ==
  /\ collection = {FullCatalog}
  /\ PublishedIn("A") # {} /\ PublishedIn("M") # {}
  /\ Char3 \notin PublishedIn("A") \cup PublishedIn("M")

\* C22: a spawn that carries a video character of the reserved tag is
\* published in the chat AMV_ALLOWED_GROUP_ID only.
C22_VideoOnlyInDesignatedChat ==
  \A chat \in Chats : \A character \in PublishedIn(chat) :
    (character.is_video /\ RarityEmoji(character.rarity) = <<"v">>) =>
      chat = AMV_ALLOWED_GROUP_ID

\* C22 witness: chat A holds the grant of the video tag and has published
\* the other character of the catalog, while the video was published in the
\* designated chat.
C22_Witness ==
  /\ collection = {<<Char1, CharV>>}
  /\ HasGrant("A", <<"v">>)
  /\ PublishedIn("A") = {Char1}
  /\ CharV \in PublishedIn(AMV_ALLOWED_GROUP_ID)

\* the pipelines of a chat that were dispatched and have neither published
\* nor ended
Flying(chat) ==
  {p \in SpawnIds : /\ send_image_tasks[p].chat = chat
                    /\ send_image_tasks[p].pc \in {"fetch", "filter", "post"}}

\* C23: a chat has at most one pipeline in flight, and while it has one
\* the chat is spawning.
C23_OnePipelineInFlight ==
  \A chat \in Chats :
    /\ Cardinality(Flying(chat)) <= 1
    /\ Flying(chat) # {} => Spawning(chat)

\* the timer p took the step from one position to another
Timed(p, from, to) ==
  despawn_tasks[p].pc = from /\ despawn_tasks'[p].pc = to

\* C24: the timer of a spawn nobody has won goes on to delete the
\* announcement when it fires; when no call fails it then deletes the
\* announcement, posts the notice of this spawn, and after the grace
\* period deletes the notice and leaves the chat without character and
\* without permalink.
C24_UnclaimedExpiryPath ==
  [][\A p \in SpawnIds :
       LET chat == despawn_tasks[p].chat IN
       /\ (despawn_tasks[p].pc = "sleep" /\ despawn_tasks'[p].pc # "sleep"
            /\ winners[p] = {}) =>
             /\ despawn_tasks'[p].pc = "delete"
             /\ UNCHANGED << chat_messages, last_characters, spawn_message_links >>
       /\ Timed(p, "delete", "missed") =>
             /\ SpawnMsg(p) \notin chat_messages'
             /\ MissedMsg(p) \notin chat_messages'
             /\ UNCHANGED << last_characters, spawn_message_links >>
       /\ Timed(p, "missed", "grace") =>
             /\ chat_messages' = chat_messages \cup {MissedMsg(p)}
             /\ UNCHANGED << last_characters, spawn_message_links >>
       /\ Timed(p, "grace", "done") =>
             /\ MissedMsg(p) \notin chat_messages'
             /\ ~Has(last_characters', chat)
             /\ ~Has(spawn_message_links', chat)
       /\ (despawn_tasks[p].pc \in {"delete", "missed", "grace"}
            /\ despawn_tasks'[p].pc # despawn_tasks[p].pc) =>
             \/ Timed(p, "delete", "missed") \/ Timed(p, "missed", "grace")
             \/ Timed(p, "grace", "done")
             \/ despawn_tasks'[p].pc = "error"]_vars

\* C25: a winner's handler that has ended after the deletion of the
\* announcement failed has written the character to the winner's
\* collection and counted the claim for the user and for the chat.
C25_DeleteFailureSwallowed ==
  \A u \in Users :
    guess_tasks[u].pc = "delete_failed" =>
      /\ Received(u, guess_tasks[u].spawn) >= 1
      /\ \E i \in 1..Len(group_user_totals) :
            /\ group_user_totals[i].user_id = u
            /\ group_user_totals[i].group_id = guess_tasks[u].chat
      /\ \E i \in 1..Len(top_global_groups) :
            top_global_groups[i].group_id = guess_tasks[u].chat

\* C26: once the timer of a spawn nobody had won has ended, after a failed
\* call or not, the spawn is not the chat's character any more and the
\* chat has no permalink of it.
C26_ExpiryFailureStillClears ==
  \A p \in SpawnIds :
    LET t == despawn_tasks[p] IN
    (t.pc \in {"done", "error"} /\ ~t.claimedAtFire) =>
      /\ ~(Has(last_characters, t.chat) /\ last_characters[t.chat].spawn = p)
      /\ ~(Has(spawn_message_links, t.chat) /\ spawn_message_links[t.chat] = <<t.chat, p>>)

\* C27: the step in which the post of the announcement fails leaves the
\* chat not spawning and without an unclaimed character of that pipeline,
\* for which no message was posted and no timer started.
C27_PostFailureLeavesIdle ==
  [][\A p \in SpawnIds :
       Moved(p, "post", "failed") =>
         LET chat == send_image_tasks[p].chat IN
         /\ ~Spawning(chat)'
         /\ ~(Unclaimed(chat) /\ last_characters[chat].spawn = p)']_vars

\* allowed_characters of the pipeline p that waits at the allow-filter
Allowed(p) ==
  SelectSeq(send_image_tasks[p].available,
            LAMBDA c : is_character_allowed(c, send_image_tasks[p].chat))

\* the rarity tags of a list of characters
TagsOf(characters) ==
  {RarityEmoji(characters[i].rarity) : i \in 1..Len(characters)}

\* the positions of a tag in the spawn settings
SettingOf(tag) == {k \in 1..Len(spawn_settings) : spawn_settings[k].emoji = tag}

\* C28: the weighted-choice list of a pipeline names no tag twice; every
\* bucket holds exactly the allowed characters of its tag and at least one;
\* the chat's exclusive tag, when a character of it is allowed, is first
\* with the chance of its row or 10, disabled or not; every other entry is
\* an enabled tag of the settings with the chance of its row or 5, in the
\* order of the settings, and every enabled tag with an allowed character
\* is there.
C28_WeightedChoiceList ==
  \A p \in SpawnIds :
    send_image_tasks[p].pc = "filter" =>
      LET chat == send_image_tasks[p].chat
          allowed == Allowed(p)
          wc == WeightedChoices(allowed, chat)
          exclusive == {g.rarity_emoji : g \in GroupSetting(chat)}
          where(tag) == {i \in 1..Len(wc) : wc[i].emoji = tag}
      IN /\ \A i, j \in 1..Len(wc) : wc[i].emoji = wc[j].emoji => i = j
         /\ \A i \in 1..Len(wc) :
              /\ wc[i].chars # <<>>
              /\ wc[i].chars = Pool(allowed, wc[i].emoji)
              /\ TagsOf(wc[i].chars) = {wc[i].emoji}
         /\ \A g \in GroupSetting(chat) :
              IF g.rarity_emoji \in TagsOf(allowed)
              THEN /\ wc # <<>> /\ wc[1].emoji = g.rarity_emoji
                   /\ wc[1].chance = IF "chance" \in DOMAIN g THEN g.chance ELSE 10
              ELSE where(g.rarity_emoji) = {}
         /\ \A i \in 1..Len(wc) :
              wc[i].emoji \notin exclusive =>
                \E k \in SettingOf(wc[i].emoji) :
                  /\ spawn_settings[k].enabled
                  /\ wc[i].chance = IF "chance" \in DOMAIN spawn_settings[k]
                                    THEN spawn_settings[k].chance ELSE 5
         /\ \A k \in 1..Len(spawn_settings) :
              LET tag == spawn_settings[k].emoji IN
              (spawn_settings[k].enabled /\ tag \notin exclusive /\ tag \in TagsOf(allowed))
                => where(tag) # {}
         /\ \A i, j \in 1..Len(wc) :
              (i < j /\ wc[i].emoji \notin exclusive) =>
                \E k \in SettingOf(wc[i].emoji), l \in SettingOf(wc[j].emoji) : k < l

\* C28 witness: chat A holds the grant of a tag the settings disable, a
\* character of that tag and one of an enabled tag are allowed, and the
\* list is the exclusive bucket followed by the enabled one.
C28_Witness ==
  \E p \in SpawnIds :
    /\ send_image_tasks[p].pc = "filter" /\ send_image_tasks[p].chat = "A"
    /\ HasGrant("A", <<"r">>) /\ Disabled(<<"r">>)
    /\ WeightedChoices(Allowed(p), "A") =
         << [emoji |-> <<"r">>, chars |-> <<Char2>>, chance |-> 10],
            [emoji |-> <<"c">>, chars |-> <<Char1>>, chance |-> 5] >>

\* cumulative after the first i buckets, as the loop of lines 644-646 adds
RECURSIVE Cumulative(_, _)
Cumulative(choices, i) ==
  IF i = 0 THEN 0 ELSE Cumulative(choices, i - 1) + choices[i].chance

\* the characters of the buckets of a weighted-choice list
BucketCharacters(choices) ==
  UNION {{choices[b].chars[i] : i \in 1..Len(choices[b].chars)} : b \in 1..Len(choices)}

\* C29: for a non-empty weighted-choice list and every draw from 0 to the
\* total chance, the walk stops at a bucket, the first one whose cumulative
\* chance is at least the draw; the characters the selection can return
\* are those of the buckets the walk can stop at, at least one, and each of
\* them has a tag of the list.
C29_RouletteWalk ==
  \A p \in SpawnIds :
    send_image_tasks[p].pc = "filter" =>
      LET chat == send_image_tasks[p].chat
          wc == WeightedChoices(Allowed(p), chat)
          total == Cumulative(wc, Len(wc))
          pool == SelectPool(Allowed(p), chat)
      IN wc # <<>> =>
           /\ \A rand \in 0..total :
                LET b == Roulette(wc, rand) IN
                /\ b \in 1..Len(wc)
                /\ Cumulative(wc, b) >= rand
                /\ \A j \in 1..(b - 1) : Cumulative(wc, j) < rand
                /\ \A i \in 1..Len(wc[b].chars) : wc[b].chars[i] \in pool
           /\ pool # {}
           /\ pool \subseteq BucketCharacters(wc)
           /\ \A character \in pool :
                /\ RarityEmoji(character.rarity) \in {wc[i].emoji : i \in 1..Len(wc)}
                /\ \E rand \in 0..total :
                     \E i \in 1..Len(wc[Roulette(wc, rand)].chars) :
                       wc[Roulette(wc, rand)].chars[i] = character

\* C29 witness: the list of a pipeline has two buckets, the first with
\* chance 0, and an allowed character has a tag that is not in the list;
\* the draw 0 stops at the first bucket and the other draws at the second.
C29_Witness ==
  \E p \in SpawnIds :
    LET wc == WeightedChoices(Allowed(p), send_image_tasks[p].chat) IN
    /\ send_image_tasks[p].pc = "filter"
    /\ Len(wc) = 2 /\ wc[1].chance = 0 /\ wc[2].chance = 5
    /\ Roulette(wc, 0) = 1 /\ Roulette(wc, 1) = 2 /\ Roulette(wc, 5) = 2
    /\ TagsOf(Allowed(p)) # {wc[1].emoji, wc[2].emoji}

\* C30: while a pipeline waits at the allow-filter with a non-empty allowed
\* list, the selection can return a character, only characters of the
\* list, and any of them when the weighted-choice list is empty or a
\* lookup raises; and the step the pipeline takes from there chooses a
\* character of the list and goes on to post it.
C30_FallbackPick ==
  [][\A p \in SpawnIds :
       (send_image_tasks[p].pc = "filter" /\ Allowed(p) # <<>>) =>
         LET chat == send_image_tasks[p].chat
             allowed == Allowed(p)
             members == {allowed[i] : i \in 1..Len(allowed)}
         IN /\ SelectPool(allowed, chat) # {}
            /\ SelectPool(allowed, chat) \subseteq members
            /\ FallbackPool(allowed) = members
            /\ WeightedChoices(allowed, chat) = <<>> =>
                 SelectPool(allowed, chat) = members
            /\ send_image_tasks'[p].pc # "filter" =>
                 /\ send_image_tasks'[p].pc = "post"
                 /\ send_image_tasks'[p].character \in members
                 /\ last_characters'[chat].char = send_image_tasks'[p].character]_vars

\* C30 witness: no tag of the settings has an allowed character in chat A,
\* and chat A has published the one allowed character of the catalog.
C30_Witness ==
  /\ collection = {<<Char1, CharV>>}
  /\ group_rarity_collection = {}
  /\ spawn_settings # <<>>
  /\ SettingOf(<<"c">>) = {}
  /\ PublishedIn("A") = {Char1}

\* the documents of a counter collection kept for a chat, and for a user in
\* a chat
GroupHits(docs, chat) == {i \in 1..Len(docs) : docs[i].group_id = chat}

GroupUserHits(docs, u, chat) ==
  {i \in 1..Len(docs) : docs[i].user_id = u /\ docs[i].group_id = chat}

\* after the write the key has one document, whose count is one more than
\* the count the key had before (none read as 0)
Upserted(old, new, before, after) ==
  /\ Cardinality(after) = 1
  /\ \A k \in after :
       /\ before = {} => new[k].count = 1
       /\ \A i \in before : new[k].count = old[i].count + 1

\* C32: the counter writes of an accepted claim are upserts: the write of
\* the (user, chat) counter and the write of the chat counter each leave
\* exactly one document for their key, with the count raised by one, also
\* when another claim's writes come in between; no key ever has two
\* documents.
C32_CountersAreUpserts ==
  [][/\ \A chat \in Chats :
          /\ Cardinality(GroupHits(top_global_groups', chat)) <= 1
          /\ \A u \in Users :
               Cardinality(GroupUserHits(group_user_totals', u, chat)) <= 1
     /\ \A u \in Users :
          LET chat == guess_tasks[u].chat IN
          /\ (guess_tasks[u].pc = "push" /\ guess_tasks'[u].pc = "write_group") =>
               Upserted(group_user_totals, group_user_totals',
                        GroupUserHits(group_user_totals, u, chat),
                        GroupUserHits(group_user_totals', u, chat))
          /\ (guess_tasks[u].pc = "write_group" /\ guess_tasks'[u].pc # "write_group") =>
               Upserted(top_global_groups, top_global_groups',
                        GroupHits(top_global_groups, chat),
                        GroupHits(top_global_groups', chat))]_vars

\* the character a spawn carries
CharacterOf(p) ==
  IF despawn_tasks[p].pc # "idle" THEN despawn_tasks[p].character
  ELSE send_image_tasks[p].character

\* C33: every character in a user's collection is the character of a spawn
\* that user has won.
C33_WinnerGetsMatchedCharacter ==
  \A u \in Users :
    Has(user_collection, u) =>
      \A i \in 1..Len(user_collection[u]) :
        \E p \in SpawnIds :
          /\ u \in winners[p]
          /\ user_collection[u][i].char = CharacterOf(p)

\* C34: a spawn has a winner only when its announcement has been posted.
C34_AcceptedOnlyAfterPost ==
  \A p \in SpawnIds : winners[p] # {} => send_image_tasks[p].pc = "published"

\* C36: once the timer of a spawn has run to its end, and the handler of
\* its winner (if it has one) is past the deletion without a failure, the
\* announcement of the spawn is no longer in the chat.
C36_AnnouncementDeleted ==
  \A p \in SpawnIds :
    ( /\ despawn_tasks[p].pc = "done"
      /\ \A u \in winners[p] :
           /\ guess_tasks[u].spawn = p
           /\ guess_tasks[u].pc \in {"find_user", "push", "write_group", "reply", "done"} ) =>
      SpawnMsg(p) \notin chat_messages

\* C38: the count of a chat changes only by a message: it goes up by one,
\* or it goes to zero in the step that dispatches one pipeline for the
\* chat, and that step needs the raised count to be at least the threshold;
\* no other step dispatches; a message counted while the chat is spawning
\* raises the count and dispatches nothing.
C38_ThresholdBetweenDispatches ==
  [][\A chat \in Chats :
       LET raised == CountOf(chat) + 1
           started == DispatchedIn(chat)' \ DispatchedIn(chat)
       IN /\ Counted(chat) =>
               \/ /\ message_counts'[chat] = raised
                  /\ started = {}
               \/ /\ message_counts'[chat] = 0
                  /\ raised >= MESSAGE_FREQUENCY
                  /\ Cardinality(started) = 1
          /\ started # {} => (Counted(chat) /\ message_counts'[chat] = 0)
          /\ (Spawning(chat) /\ Counted(chat)) =>
               /\ message_counts'[chat] = raised
               /\ started = {}
               /\ Spawning(chat)']_vars

\* C38 witness: while the first pipeline of the chat is in flight the chat
\* has counted a threshold of messages more.
C38_Witness ==
  /\ Spawning("A")
  /\ Flying("A") # {}
  /\ message_counts["A"] >= MESSAGE_FREQUENCY

\* the characters of a catalog that pass the allow-filter of a chat
AllowedIn(all_characters, chat) ==
  SelectSeq(all_characters, LAMBDA c : is_character_allowed(c, chat))

\* C35: a pipeline ends with 'no allowed characters' only when no character
\* of the catalog passes the allow-filter of its chat.
C35_AbortsOnlyWithoutAllowed ==
  [][\A p \in SpawnIds :
       Moved(p, "filter", "noallowed") =>
         \A all_characters \in collection :
           AllowedIn(all_characters, send_image_tasks[p].chat) = <<>>]_vars

\* no value stands twice in the sequence
NoDuplicates(seq) ==
  \A i, j \in 1..Len(seq) : i # j => seq[i] # seq[j]

\* C31: the character a pipeline chooses is not in the chat's shown list
\* as it stands when the pipeline chooses, and the shown list of a chat
\* never holds an id twice.
C31_NeverDealtTwice ==
  [][/\ \A chat \in Chats :
          Has(sent_characters', chat) => NoDuplicates(sent_characters'[chat])
     /\ \A p \in SpawnIds :
          Moved(p, "filter", "post") =>
            send_image_tasks'[p].character.id
              \notin Ids(sent_characters[send_image_tasks[p].chat])]_vars

\* C37: while a chat is spawning one of its pipelines is in flight; the
\* step in which a pipeline returns (empty catalog, no allowed character,
\* published, exception) leaves the chat's flag false; and a chat that is
\* spawning is later not spawning.
C37_SpawningClears ==
  /\ [](\A chat \in Chats : Spawning(chat) => Flying(chat) # {})
  /\ [][\A p \in SpawnIds :
          ( /\ p \in Flying(send_image_tasks[p].chat)
            /\ send_image_tasks'[p].pc \notin {"fetch", "filter", "post"} ) =>
            /\ Has(currently_spawning', send_image_tasks[p].chat)
            /\ ~Spawning(send_image_tasks[p].chat)']_vars
  /\ \A chat \in Chats : Spawning(chat) ~> ~Spawning(chat)

\* C37 witness: the pipeline dispatched after the first spawn of the chat
\* has returned without publishing, and the chat's flag is false.
C37_Witness ==
  /\ \E p \in SpawnIds :
       /\ send_image_tasks[p].pc \in {"empty", "noallowed", "failed"}
       /\ send_image_tasks[p].chat = "A"
  /\ Flying("A") = {}
  /\ Has(currently_spawning, "A")
  /\ ~currently_spawning["A"]

\* the positions of an invocation that is past the guard and has not ended
DailyRunning == {"find", "cooldown", "fetch", "nochar", "update", "photo", "error"}

Running == {i \in DailyIds : daily_claim_tasks[i].pc \in DailyRunning}

\* the invocations of a user that have pushed a character
Appended(u) ==
  {i \in DailyIds : daily_claim_tasks[i].user = u /\ daily_claim_tasks[i].appended}

\* the characters daily_claim has pushed to a user's collection
DailyCharacters(u) ==
  IF Has(user_collection, u)
  THEN {k \in 1..Len(user_collection[u]) : user_collection[u][k].spawn = 0}
  ELSE {}

\* C39: a user's collection holds one daily character for each invocation
\* of that user that pushed one, and two such invocations of one user have
\* claim times at least 24 hours apart; an invocation that arrives while
\* the user is in active_claims goes to the 'Processing' reply and ends
\* there, and neither of its steps changes active_claims, the collection or
\* the stored claim time.
C39_OnePerDay ==
  [][/\ \A u \in Users :
          /\ Cardinality(DailyCharacters(u)') = Cardinality(Appended(u)')
          /\ \A i, j \in Appended(u)' :
               i # j =>
                 \/ daily_claim_tasks'[i].now - daily_claim_tasks'[j].now >= Day
                 \/ daily_claim_tasks'[j].now - daily_claim_tasks'[i].now >= Day
     /\ \A i \in DailyIds :
          LET t == daily_claim_tasks[i]
              t1 == daily_claim_tasks'[i]
          IN /\ (t.pc = "idle" /\ t1.pc # "idle" /\ t1.user \in active_claims) =>
                  /\ t1.pc = "processing"
                  /\ UNCHANGED << active_claims, user_collection, last_daily_claim >>
             /\ (t.pc = "processing" /\ t1.pc # "processing") =>
                  /\ t1.pc = "done" /\ ~t1.appended
                  /\ UNCHANGED << active_claims, user_collection, last_daily_claim >>]_vars

\* C39 witness: an invocation of a user was answered 'Processing' while
\* another invocation of the same user was on its way, and that one has
\* pushed a character.
C39_Witness ==
  \E i, j \in DailyIds :
    /\ i # j
    /\ daily_claim_tasks[i].user = daily_claim_tasks[j].user
    /\ daily_claim_tasks[i].pc = "photo" /\ daily_claim_tasks[i].appended
    /\ daily_claim_tasks[j].exit = "rejected"

\* C40: a user is in active_claims exactly while one invocation of that
\* user is past the guard and has not ended; the step in which such an
\* invocation ends, however it ends, leaves the user out of the set, the
\* step in which a rejected invocation ends leaves the set as it is; and a
\* user that is in the set is later not in it.
C40_ActiveWhileRunning ==
  /\ [](/\ active_claims = {daily_claim_tasks[i].user : i \in Running}
        /\ \A i, j \in Running :
             i # j => daily_claim_tasks[i].user # daily_claim_tasks[j].user)
  /\ [][\A i \in DailyIds :
          LET t == daily_claim_tasks[i] IN
          /\ (i \in Running /\ daily_claim_tasks'[i].pc = "done") =>
               /\ t.user \notin active_claims'
               /\ daily_claim_tasks'[i].exit \in {"success", "cooldown", "nochar", "exception"}
          /\ (t.pc = "processing" /\ daily_claim_tasks'[i].pc = "done") =>
               active_claims' = active_claims]_vars
  /\ \A u \in Users : (u \in active_claims) ~> (u \notin active_claims)

\* C40 witness: an invocation of a user was rejected by the guard and has
\* ended while the user's other invocation was still on its way, and that
\* one has ended with an exception; the user is not in active_claims.
C40_Witness ==
  \E i, j \in DailyIds :
    /\ daily_claim_tasks[i].user = daily_claim_tasks[j].user
    /\ daily_claim_tasks[i].exit = "exception"
    /\ daily_claim_tasks[j].exit = "rejected"
    /\ active_claims = {}

====
